---- MODULE Spec2Model ----
(***************************************************************************)
(* ZKS-Tunnel: the frame codec (zks-tunnel-proto/src/message.rs), the      *)
(* client-side multiplexed tunnel (zks-tunnel-client/src/tunnel.rs) and    *)
(* the relay session (zks-tunnel-worker/src/tunnel_session.rs).            *)
(***************************************************************************)
EXTENDS Integers, Sequences, FiniteSets, TLC

(***************************************************************************)
(* Part 1.  Frame codec                                                    *)
(***************************************************************************)

\* Longest byte string handed to decode as adversarial input.
MaxWireLen == 11

\* Number of values of a u16 (port, code, host_len, msg_len).
U16Range == 65536

\* A u32 (StreamId, payload_len) is held as the integer with the same 32-bit
\* pattern: TLC's integers are 32-bit signed, so a value v >= 2^31 is
\* held as v - 2^32.  U32Max is 2^32 - 1.
U32Max == -1

\* CommandType discriminants.
CmdConnect == 1
CmdData == 2
CmdClose == 3
CmdErrorReply == 4
CmdPing == 5
CmdPong == 6

\* TunnelMessage variants.
Connect(sid, host, port) ==
    [type |-> "Connect", stream_id |-> sid, host |-> host, port |-> port]
Data(sid, payload) ==
    [type |-> "Data", stream_id |-> sid, payload |-> payload]
Close(sid) ==
    [type |-> "Close", stream_id |-> sid]
ErrorReply(sid, code, message) ==
    [type |-> "ErrorReply", stream_id |-> sid, code |-> code, message |-> message]
Ping == [type |-> "Ping"]
Pong == [type |-> "Pong"]

\* BufMut::put_u16 / put_u32: big-endian octets of a value already of that width.
PutU16(n) == << n \div 256, n % 256 >>
PutU32(n) ==
    << (n \div 16777216) % 256, (n \div 65536) % 256, (n \div 256) % 256, n % 256 >>

\* `len as u16` and `len as u32`: the cast keeps the low bits.
AsU16(n) == n % U16Range
\* Every length the model builds is below 2^31, where the cast is the identity.
AsU32(n) == n

\* TunnelMessage::encode.
encode(m) ==
    CASE m.type = "Connect" ->
            << CmdConnect >> \o PutU32(m.stream_id) \o PutU16(m.port)
                \o PutU16(AsU16(Len(m.host))) \o m.host
      [] m.type = "Data" ->
            << CmdData >> \o PutU32(m.stream_id)
                \o PutU32(AsU32(Len(m.payload))) \o m.payload
      [] m.type = "Close" ->
            << CmdClose >> \o PutU32(m.stream_id)
      [] m.type = "ErrorReply" ->
            << CmdErrorReply >> \o PutU32(m.stream_id) \o PutU16(m.code)
                \o PutU16(AsU16(Len(m.message))) \o m.message
      [] m.type = "Ping" -> << CmdPing >>
      [] m.type = "Pong" -> << CmdPong >>

\* Results of decode: Ok(frame), Err(kind), or an abort (a Cursor read or a
\* slice past the end of the input panics).
Ok(m) == [res |-> "Ok", msg |-> m]
Err(e) == [res |-> "Err", err |-> e]
Panic == [res |-> "Panic"]

\* Cursor over data with pos octets consumed.
Remaining(data, pos) == Len(data) - pos
GetU8(data, pos) == data[pos + 1]
GetU16(data, pos) == data[pos + 1] * 256 + data[pos + 2]
GetU32(data, pos) ==
    (IF data[pos + 1] < 128 THEN data[pos + 1] ELSE data[pos + 1] - 256) * 16777216
        + data[pos + 2] * 65536 + data[pos + 3] * 256 + data[pos + 4]
Slice(data, pos, n) == SubSeq(data, pos + 1, pos + n)

\* std String::from_utf8 accepts exactly the well-formed UTF-8 sequences.
IsCont(b) == b >= 128 /\ b <= 191
RECURSIVE Utf8From(_)
Utf8From(s) ==
    IF s = << >> THEN TRUE
    ELSE LET b == s[1]
             n == Len(s)
         IN  IF b < 128 THEN Utf8From(Tail(s))
             ELSE IF b >= 194 /\ b <= 223
               THEN n >= 2 /\ IsCont(s[2]) /\ Utf8From(SubSeq(s, 3, n))
             ELSE IF b >= 224 /\ b <= 239
               THEN /\ n >= 3
                    /\ IsCont(s[2]) /\ IsCont(s[3])
                    /\ (b = 224 => s[2] >= 160)
                    /\ (b = 237 => s[2] <= 159)
                    /\ Utf8From(SubSeq(s, 4, n))
             ELSE IF b >= 240 /\ b <= 244
               THEN /\ n >= 4
                    /\ IsCont(s[2]) /\ IsCont(s[3]) /\ IsCont(s[4])
                    /\ (b = 240 => s[2] >= 144)
                    /\ (b = 244 => s[2] <= 143)
                    /\ Utf8From(SubSeq(s, 5, n))
             ELSE FALSE
\* All-ASCII input is well formed (from_utf8 takes the same shortcut).
IsUtf8(s) == (\A i \in 1..Len(s) : s[i] < 128) \/ Utf8From(s)

\* A decode that never finds the fixed header short.
HeaderNeverShort(remaining, need) == FALSE
\* The length guards of decode: TRUE means InsufficientData is returned.
HeaderShort(remaining, need) == remaining < need
\* A decode that trusts the declared length.
BodyShortNoCheck(remaining, len) == FALSE
\* remaining < len as usize; len < 0 stands for a u32 of 2^31 or more.
BodyShort(remaining, len) == len < 0 \/ remaining < len

\* CommandType::try_from.
ValidCommand(b) == b >= CmdConnect /\ b <= CmdPong

\* The CONNECT arm of decode; pos = 1 after the command octet.
DecodeConnect(data) ==
    IF HeaderShort(Remaining(data, 1), 8) THEN Err("InsufficientData")
    ELSE IF Remaining(data, 1) < 8 THEN Panic
    ELSE LET stream_id == GetU32(data, 1)
             port == GetU16(data, 5)
             host_len == GetU16(data, 7)
         IN  IF BodyShort(Remaining(data, 9), host_len)
               THEN Err("InsufficientData")
             ELSE IF Remaining(data, 9) < host_len THEN Panic
             ELSE LET host_bytes == Slice(data, 9, host_len)
                  IN  IF IsUtf8(host_bytes)
                        THEN Ok(Connect(stream_id, host_bytes, port))
                        ELSE Err("InvalidUtf8")

\* The DATA arm of decode.
DecodeData(data) ==
    IF HeaderShort(Remaining(data, 1), 8) THEN Err("InsufficientData")
    ELSE IF Remaining(data, 1) < 8 THEN Panic
    ELSE LET stream_id == GetU32(data, 1)
             payload_len == GetU32(data, 5)
         IN  IF BodyShort(Remaining(data, 9), payload_len)
               THEN Err("InsufficientData")
             ELSE IF payload_len < 0 \/ Remaining(data, 9) < payload_len THEN Panic
             ELSE Ok(Data(stream_id, Slice(data, 9, payload_len)))

\* The CLOSE arm of decode.
DecodeClose(data) ==
    IF HeaderShort(Remaining(data, 1), 4) THEN Err("InsufficientData")
    ELSE IF Remaining(data, 1) < 4 THEN Panic
    ELSE Ok(Close(GetU32(data, 1)))

\* The ERROR arm of decode.
DecodeErrorReply(data) ==
    IF HeaderShort(Remaining(data, 1), 8) THEN Err("InsufficientData")
    ELSE IF Remaining(data, 1) < 8 THEN Panic
    ELSE LET stream_id == GetU32(data, 1)
             code == GetU16(data, 5)
             msg_len == GetU16(data, 7)
         IN  IF BodyShort(Remaining(data, 9), msg_len)
               THEN Err("InsufficientData")
             ELSE IF Remaining(data, 9) < msg_len THEN Panic
             ELSE LET msg_bytes == Slice(data, 9, msg_len)
                  IN  IF IsUtf8(msg_bytes)
                        THEN Ok(ErrorReply(stream_id, code, msg_bytes))
                        ELSE Err("InvalidUtf8")

\* TunnelMessage::decode.
decode(data) ==
    IF data = << >> THEN Err("EmptyMessage")
    ELSE LET cmd == GetU8(data, 0)
         IN  IF ~ValidCommand(cmd) THEN Err("InvalidCommand")
             ELSE CASE cmd = CmdConnect -> DecodeConnect(data)
                    [] cmd = CmdData -> DecodeData(data)
                    [] cmd = CmdClose -> DecodeClose(data)
                    [] cmd = CmdErrorReply -> DecodeErrorReply(data)
                    [] cmd = CmdPing -> Ok(Ping)
                    [] cmd = CmdPong -> Ok(Pong)

\* ProtoError kinds a decode may return.
ProtoErrors ==
    {"InvalidCommand", "EmptyMessage", "InsufficientData", "InvalidUtf8",
     "FrameTooLarge"}

IsPrefix(s, t) == Len(s) <= Len(t) /\ SubSeq(t, 1, Len(s)) = s

(***************************************************************************)
(* Part 2.  Client tunnel and relay session                                *)
(***************************************************************************)

\* mpsc::channel capacities: the upstream send queue and each stream inbox.
SendQueueCap == 256
InboxCap == 256
\* Size of the read buffers of the relay task and of the origin reader task.
ReadBufSize == 16384

\* Environment bounds: octets a local endpoint writes and an origin sends,
\* keepalive pings the client issues, and how far past a queue's capacity the
\* bulk transfers go.
MaxLocalBytes == 3
MaxOriginBytes == 2
MaxPings == 1
BulkExtra == 2

\* SOCKS5 connections handed to the tunnel; stream IDs they can be given.
Conns == {1, 2}
Ids == {1, 2}

\* Error texts of the relay session (UTF-8 octets).
MsgInvalidHost == << 73, 110, 118, 97, 108, 105, 100, 32, 104, 111, 115, 116 >>
MsgDuplicate ==
    << 83, 116, 114, 101, 97, 109, 32, 73, 68, 32, 97, 108, 114, 101, 97, 100,
       121, 32, 105, 110, 32, 117, 115, 101 >>
MsgReadError ==
    << 83, 111, 99, 107, 101, 116, 32, 114, 101, 97, 100, 32, 101, 114, 114,
       111, 114 >>
MsgNotFound ==
    << 83, 116, 114, 101, 97, 109, 32, 110, 111, 116, 32, 102, 111, 117, 110, 100 >>
MsgWriteError == << 87, 114, 105, 116, 101, 32, 101, 114, 114, 111, 114, 58, 32 >>
MsgConnectFailed ==
    << 67, 111, 110, 110, 101, 99, 116, 105, 111, 110, 32, 102, 97, 105, 108,
       101, 100, 58, 32 >>

\* The list without its last 172.x entry.
BlockedPrefixesShort ==
    { << 49, 50, 55, 46 >>, << 49, 48, 46 >>, << 49, 57, 50, 46, 49, 54, 56, 46 >>,
      << 49, 54, 57, 46, 50, 53, 52, 46 >>, << 48, 46 >>,
      << 108, 111, 99, 97, 108, 104, 111, 115, 116 >>, << 58, 58, 49 >>,
      << 102, 99 >>, << 102, 100 >>, << 102, 101, 56, 48 >> }
      \cup { << 49, 55, 50, 46, 49, 48 + d, 46 >> : d \in 6..9 }
      \cup { << 49, 55, 50, 46, 50, 48 + d, 46 >> : d \in 0..9 }
      \cup { << 49, 55, 50, 46, 51, 48, 46 >> }

\* blocked_prefixes of is_valid_host.
BlockedPrefixes ==
    { << 49, 50, 55, 46 >>, << 49, 48, 46 >>, << 49, 57, 50, 46, 49, 54, 56, 46 >>,
      << 49, 54, 57, 46, 50, 53, 52, 46 >>, << 48, 46 >>,
      << 108, 111, 99, 97, 108, 104, 111, 115, 116 >>, << 58, 58, 49 >>,
      << 102, 99 >>, << 102, 100 >>, << 102, 101, 56, 48 >> }
      \cup { << 49, 55, 50, 46, 49, 48 + d, 46 >> : d \in 6..9 }
      \cup { << 49, 55, 50, 46, 50, 48 + d, 46 >> : d \in 0..9 }
      \cup { << 49, 55, 50, 46, 51, 48 + d, 46 >> : d \in 0..1 }

\* str::to_lowercase on ASCII letters (other octets are left as they are).
ToLower(h) == [i \in 1..Len(h) |-> IF h[i] >= 65 /\ h[i] <= 90 THEN h[i] + 32 ELSE h[i]]

\* A filter that lets every host through.
AnyHostValid(h) == TRUE

\* TunnelSession::is_valid_host.
is_valid_host(h) ==
    /\ \A p \in BlockedPrefixes : ~IsPrefix(p, ToLower(h))
    /\ ~(h = << >> \/ Len(h) > 253)

\* Hosts the local applications ask for: "a" and "fc" (denied by the filter).
HostSamples == { << 97 >>, << 102, 99 >> }
PortSample == 443

\* AtomicU32::fetch_add(1): wraps from 2^32 - 1 to 0 (see U32Max).
WrapAdd1(n) == IF n = 2147483647 THEN -2147483647 - 1 ELSE n + 1

\* Octet i of the stream a local endpoint writes, and of the stream an origin
\* sends, on stream id.  The relay never looks at the value of a payload octet,
\* so an octet is represented by a tag naming its stream and its position:
\* order, loss, duplication and misdelivery all show in the tags.
LocalBase(id) == 1000 * id
OriginBase(id) == 100000 + 1000 * id
LocalByte(id, i) == LocalBase(id) + i
OriginByte(id, i) == OriginBase(id) + i
LocalBytes(id, from, n) == [k \in 1..n |-> LocalByte(id, from + k)]
OriginBytes(id, from, n) == [k \in 1..n |-> OriginByte(id, from + k)]

Min(a, b) == IF a < b THEN a ELSE b

NoBlock == [sid |-> 0, payload |-> << >>]
NoWrite == [sid |-> 0, payload |-> << >>]

VARIABLES
    cstep,      \* pure-function harness: "start", "roundtrip", "decoded", "host",
                \* "socks", "oversize"
    frame,      \* the frame given to encode (roundtrip)
    wire,       \* the octets given to decode
    decoded,    \* the result of decode(wire)
    hostIn,     \* the host given to is_valid_host
    hostOk,     \* the result of is_valid_host(hostIn)
    socksIn,    \* the SOCKS5 request given to handle_socks5_connection
    socksOut,   \* what handle_socks5_connection wrote to the local endpoint
                \* before open_stream, and whether it went on to open_stream
    oversize    \* length of an oversize message and what decode returned for it

hvars ==
    << cstep, frame, wire, decoded, hostIn, hostOk, socksIn, socksOut, oversize >>

VARIABLES
    capacity,       \* PacketBufPool: the capacity its ArrayQueue was made with
    buf_size,       \* PacketBufPool.buf_size
    pool,           \* PacketBufPool.pool: the vectors in the queue, oldest first
    held,           \* per holder: the vector it owns (NoBuf: none)
    poolOp,         \* the last call on the pool and what it returned or did
    seen_nonces,    \* ReplayProtection.seen_nonces: nonce -> time recorded
    max_age,        \* ReplayProtection.max_age
    last_cleanup,   \* ReplayProtection.last_cleanup
    clock,          \* what Instant::now() returns
    lastCheck       \* the last call of check_and_record and its result

poolVars == << capacity, buf_size, pool, held, poolOp >>
replayVars == << seen_nonces, max_age, last_cleanup, clock, lastCheck >>
uvars == << poolVars, replayVars >>
cvars == << hvars, uvars >>

VARIABLES
    cfg,              \* what the environment does in this run (fixed at Init)
    rawSent,          \* messages a peer that is not a TunnelClient has sent
    rawDownSent,      \* messages a relay that is not a TunnelSession has sent
    next_stream_id,   \* TunnelClient.next_stream_id
    sendq,            \* frames in the upstream send queue (sender -> writer task)
    sendqOpen,        \* the writer task still holds the queue's receiver
    streams,          \* stream IDs in TunnelClient.streams
    owner,            \* per stream ID: the connection whose inbox receiver pairs
                      \* with the sender last inserted under the ID (0: none)
    inbox,            \* per connection: payloads in the stream's inbox channel
    readerBlocked,    \* the DATA the reader task is waiting to put in a full inbox
    readerAlive,      \* the reader task is in its loop
    pc,               \* per connection: where open_stream / relay stands
    sid,              \* per connection: the stream ID fetch_add returned (0: none)
    host,             \* per connection: the host asked for
    l2t,              \* per connection: the local_to_tunnel task
    l2tPending,       \* per connection: octets read and waiting for send-queue room
    t2l,              \* per connection: the tunnel_to_local task
    localRead,        \* per connection: octets read from the local endpoint
    localOut,         \* per connection: octets written to the local endpoint
    pings,            \* pings issued by TunnelClient::ping
    closeSent,        \* per connection: CLOSE frames relay() has enqueued
    reply,            \* per connection: reply codes the SOCKS5 handler has written
                      \* to the local endpoint after the request
    cTerminal,        \* stream IDs whose CLOSE or ERROR the reader task has handled
    c2s,              \* encoded messages in flight, client -> relay
    s2c,              \* encoded messages in flight, relay -> client
    active_streams,   \* stream IDs in TunnelSession.active_streams
    oreader,          \* per stream ID: the origin reader task
    originRead,       \* per stream ID: octets read from the origin
    originOut,        \* per stream ID: octets written to the origin write-half
    srvWrite,         \* the write handle_data is suspended in (map borrowed mutably)
    srvPanicked,      \* a handler or reader task hit a conflicting RefCell borrow
    sTerminal,        \* stream IDs whose CLOSE handle_close has handled
    channel           \* the session's upstream channel: "open", "closed"
                      \* (websocket_close ran) or "failed" (websocket_error ran)

clientVars ==
    << next_stream_id, sendq, sendqOpen, streams, owner, inbox, readerBlocked,
       readerAlive, pc, sid, host, l2t, l2tPending, t2l, localRead, localOut, pings, closeSent,
       reply, cTerminal >>
serverVars ==
    << active_streams, oreader, originRead, originOut, srvWrite, srvPanicked,
       sTerminal, channel >>
envVars == << cfg, rawSent, rawDownSent >>
pvars == << envVars, clientVars, c2s, s2c, serverVars >>
vars == << cvars, pvars >>

NoFrame == [type |-> "None"]
NoRequest ==
    [ver |-> 0, methods |-> {}, ver2 |-> 0, cmd |-> 0, atyp |-> 0,
     addr |-> << >>, domain |-> << >>]
NoReplies == [replies |-> << >>, opens |-> FALSE]

\* Octets used to build inputs: 97 is ASCII text, 195 169 is a two-octet UTF-8
\* character, 255 is never valid UTF-8, 0 and 1 give small lengths.
Rep(n, b) == [i \in 1..n |-> b]
StreamIdSamples == {0, 1, 42, U32Max}
PortSamples == {0, 443, U16Range - 1}
TextSamples ==
    { << >>, << 97 >>, << 195, 169 >>, Rep(253, 97), Rep(U16Range - 1, 97),
      Rep(U16Range, 97) }
PayloadSamples == { << >>, << 0 >>, << 255, 1 >>, Rep(U16Range, 7) }
CodeSamples == {0, 400, 502, U16Range - 1}

FrameInputs ==
    { Connect(s, h, p) : s \in StreamIdSamples, h \in TextSamples, p \in PortSamples }
      \cup { Data(s, p) : s \in StreamIdSamples, p \in PayloadSamples }
      \cup { Close(s) : s \in StreamIdSamples }
      \cup { ErrorReply(s, c, m) : s \in StreamIdSamples, c \in CodeSamples,
                                   m \in TextSamples }
      \cup { Ping, Pong }

FirstOctets == 0..7 \cup {255}
RestOctets == {0, 1, 255}

CodecInit ==
    /\ cstep = "start"
    /\ frame = NoFrame
    /\ wire = << >>
    /\ decoded = Err("EmptyMessage")
    /\ hostIn = << >>
    /\ hostOk = FALSE
    /\ socksIn = NoRequest
    /\ socksOut = NoReplies
    /\ oversize = [len |-> 0, out |-> [res |-> "Err", err |-> "EmptyMessage"]]

\* decode(f.encode()) for a frame f.
RoundTrip ==
    /\ cstep = "start"
    /\ \E f \in FrameInputs :
          /\ frame' = f
          /\ wire' = encode(f)
          /\ decoded' = decode(encode(f))
    /\ cstep' = "roundtrip"
    /\ UNCHANGED << hostIn, hostOk, socksIn, socksOut, oversize, uvars, pvars >>

\* decode(b) for an arbitrary byte string b.
DecodeBytes ==
    /\ cstep = "start"
    /\ \/ wire' = << >>
       \/ \E n \in 0..(MaxWireLen - 1) :
             \E c \in FirstOctets, r \in [1..n -> RestOctets] :
                wire' = << c >> \o r
    /\ decoded' = decode(wire')
    /\ frame' = NoFrame
    /\ cstep' = "decoded"
    /\ UNCHANGED << hostIn, hostOk, socksIn, socksOut, oversize, uvars, pvars >>

\* Hosts given to the filter.  A host is a stem, written as it is or in upper
\* case, followed by nothing, by one letter, or by letters up to a length of
\* MaxHostLen and MaxHostLen + 1.  The stems are "172.d." for d from 15 to 32,
\* the other strings the filter looks for, strings just outside them ("127",
\* "128.", "fe8", "localhos", ...), strings that hold one but do not begin
\* with it, and ordinary names.
MaxHostLen == 253
Stems172 == { << 49, 55, 50, 46, 48 + (d \div 10), 48 + (d % 10), 46 >> : d \in 15..32 }
OtherStems ==
    { << 49, 50, 55, 46 >>, << 49, 48, 46 >>, << 49, 57, 50, 46, 49, 54, 56, 46 >>,
      << 49, 54, 57, 46, 50, 53, 52, 46 >>, << 48, 46 >>,
      << 108, 111, 99, 97, 108, 104, 111, 115, 116 >>, << 58, 58, 49 >>,
      << 102, 99 >>, << 102, 100 >>, << 102, 101, 56, 48 >> }
NearMisses ==
    { << >>, << 97 >>, << 102 >>, << 102, 101, 56 >>, << 102, 101, 56, 49 >>,
      << 102, 98 >>, << 120, 102, 99 >>, << 49, 50, 55 >>, << 49, 50, 56, 46 >>,
      << 49, 48 >>, << 49, 49, 46 >>, << 49, 57, 50, 46, 49, 54, 56 >>,
      << 49, 57, 50, 46, 49, 54, 57, 46 >>, << 49, 54, 57, 46, 50, 53, 52 >>,
      << 49, 54, 57, 46, 50, 53, 53, 46 >>, << 48 >>, << 49, 46 >>,
      << 49, 55, 50, 46 >>, << 49, 55, 50, 46, 49, 46 >>,
      << 49, 55, 50, 46, 49, 54 >>, << 49, 55, 50, 46, 49, 54, 48, 46 >>,
      << 49, 55, 51, 46, 49, 54, 46 >>,
      << 108, 111, 99, 97, 108, 104, 111, 115 >>,
      << 32, 108, 111, 99, 97, 108, 104, 111, 115, 116 >>,
      << 58, 58 >>, << 58, 58, 50 >>, << 58, 49 >>,
      << 101, 120, 97, 109, 112, 108, 101, 46, 99, 111, 109 >> }
HostStems == Stems172 \cup OtherStems \cup NearMisses
ToUpper(h) == [i \in 1..Len(h) |-> IF h[i] >= 97 /\ h[i] <= 122 THEN h[i] - 32 ELSE h[i]]
PadTo(h, n) == h \o Rep(IF n > Len(h) THEN n - Len(h) ELSE 0, 120)

\* is_valid_host(h) for a host h.
CheckHost ==
    /\ cstep = "start"
    /\ \E stem \in HostStems, upper \in BOOLEAN,
          n \in {0, 1, MaxHostLen, MaxHostLen + 1} :
          LET cased == IF upper THEN ToUpper(stem) ELSE stem
              h == IF n = 0 THEN cased
                   ELSE IF n = 1 THEN cased \o << 120 >>
                   ELSE PadTo(cased, n)
          IN  /\ hostIn' = h
              /\ hostOk' = is_valid_host(h)
    /\ cstep' = "host"
    /\ UNCHANGED << frame, wire, decoded, socksIn, socksOut, oversize, uvars, pvars >>

\* SOCKS5 address types, and the longest domain a one-octet length can give.
AtypIpv4 == 1
AtypDomain == 3
AtypIpv6 == 4
MaxDomainLen == 255
\* format!("{}", n) for an octet n.
Dec(n) ==
    IF n < 10 THEN << 48 + n >>
    ELSE IF n < 100 THEN << 48 + (n \div 10), 48 + (n % 10) >>
    ELSE << 48 + (n \div 100), 48 + ((n \div 10) % 10), 48 + (n % 10) >>
\* format!("{}.{}.{}.{}", addr[0], addr[1], addr[2], addr[3]).
FormatIpv4(a) ==
    Dec(a[1]) \o << 46 >> \o Dec(a[2]) \o << 46 >> \o Dec(a[3]) \o << 46 >> \o Dec(a[4])
\* handle_socks5_connection, "Parse destination address": the host handed to
\* open_stream, or a refusal.
ParseAddress(req) ==
    IF req.atyp = AtypIpv4 THEN [res |-> "Ok", host |-> FormatIpv4(req.addr)]
    ELSE IF req.atyp = AtypDomain
      THEN IF IsUtf8(req.domain)
             THEN [res |-> "Ok", host |-> req.domain]
             ELSE [res |-> "Err", host |-> << >>]
    ELSE [res |-> "Err", host |-> << >>]
\* SOCKS_VERSION, AUTH_NO_AUTH, CMD_CONNECT and the reply codes.
SocksVersion == 5
AuthNoAuth == 0
AuthNone == 255
SocksCmdConnect == 1
RepSuccess == 0
RepHostUnreachable == 4
RepCmdNotSupported == 7
RepAtypNotSupported == 8

\* send_reply: version, code, reserved, ATYP_IPV4, the four parts of the bind
\* address (the octets parsed from the dotted text) and the port, high octet
\* first.
send_reply(rep, addr_parts, bind_port) ==
    << SocksVersion, rep, 0, AtypIpv4, addr_parts[1], addr_parts[2],
       addr_parts[3], addr_parts[4], bind_port \div 256, bind_port % 256 >>
\* "0.0.0.0" split at the dots and parsed.
BindAny == << 0, 0, 0, 0 >>

\* A method selection that takes any offer.
AnyMethodOk(methods) == TRUE
\* methods.contains(&AUTH_NO_AUTH).
OffersNoAuth(methods) == AuthNoAuth \in methods

\* handle_socks5_connection up to the call of open_stream: the messages it
\* writes to the local endpoint, whether it goes on to open_stream, and the
\* host it opens.  Every refusal returns Err, which drops the connection.
Admission(req) ==
    IF req.ver # SocksVersion
      THEN [replies |-> << >>, opens |-> FALSE, host |-> << >>]
    ELSE IF ~OffersNoAuth(req.methods)
      THEN [replies |-> << << SocksVersion, AuthNone >> >>, opens |-> FALSE,
            host |-> << >>]
    ELSE LET accept == << << SocksVersion, AuthNoAuth >> >>
         IN  IF req.ver2 # SocksVersion
               THEN [replies |-> accept, opens |-> FALSE, host |-> << >>]
             ELSE IF req.cmd # SocksCmdConnect
               THEN [replies |-> Append(accept,
                                    send_reply(RepCmdNotSupported, BindAny, 0)),
                     opens |-> FALSE, host |-> << >>]
             ELSE IF req.atyp \in {AtypIpv4, AtypDomain}
               THEN LET r == ParseAddress(req)
                    IN  [replies |-> accept, opens |-> r.res = "Ok",
                         host |-> r.host]
             ELSE [replies |-> Append(accept,
                                  send_reply(RepAtypNotSupported, BindAny, 0)),
                   opens |-> FALSE, host |-> << >>]

\* Requests: versions 5 and 4; method offers with and without 0x00; the
\* commands CONNECT, BIND and UDP ASSOCIATE; every address type and one
\* unknown to the code; IPv4 addresses from a few octets; domains of length
\* 0, 1, 253, 254 and MaxDomainLen, and domains that are and are not UTF-8.
VersionSamples == {4, SocksVersion}
MethodOffers == { {}, {AuthNoAuth}, {2}, {AuthNoAuth, 2} }
CommandSamples == {SocksCmdConnect, 2, 3}
AtypSamples == {AtypIpv4, AtypDomain, AtypIpv6, 9}
AddrOctets == {0, 10, 255}
DomainSamples ==
    { Rep(n, 97) : n \in {0, 1, 253, 254, MaxDomainLen} }
      \cup { << 195, 169 >>, << 195 >>, << 255 >> }

\* handle_socks5_connection from the greeting to the CONNECT frame open_stream
\* gives to the send queue (the first call on a client: stream ID 1).
SocksAdmit ==
    /\ cstep = "start"
    /\ \E v \in VersionSamples, ms \in MethodOffers, v2 \in VersionSamples,
          k \in CommandSamples, t \in AtypSamples :
          \E a \in [1..4 -> AddrOctets], d \in DomainSamples :
             LET req == [ver |-> v, methods |-> ms, ver2 |-> v2, cmd |-> k,
                         atyp |-> t,
                         addr |-> IF t = AtypIpv4 THEN a ELSE << >>,
                         domain |-> IF t = AtypDomain THEN d ELSE << >>]
                 r == Admission(req)
             IN  /\ socksIn' = req
                 /\ socksOut' = [replies |-> r.replies, opens |-> r.opens]
                 /\ frame' = IF r.opens THEN Connect(1, r.host, PortSample)
                              ELSE NoFrame
                 /\ wire' = IF r.opens
                              THEN encode(Connect(1, r.host, PortSample))
                              ELSE << >>
    /\ cstep' = "socks"
    /\ UNCHANGED << decoded, hostIn, hostOk, oversize, uvars, pvars >>

\* MAX_FRAME_SIZE.
MaxFrameSize == 1048576

\* What decode returned, without the octets: Ok with the frame's type and the
\* length of its host, payload or message, or the error.
Outcome(d) ==
    IF d.res = "Ok"
      THEN [res |-> "Ok", type |-> d.msg.type,
            body |-> IF d.msg.type = "Connect" THEN Len(d.msg.host)
                     ELSE IF d.msg.type = "Data" THEN Len(d.msg.payload)
                     ELSE IF d.msg.type = "ErrorReply" THEN Len(d.msg.message)
                     ELSE 0]
    ELSE IF d.res = "Err" THEN [res |-> "Err", err |-> d.err]
    ELSE [res |-> "Panic"]

\* decode(b) for a message b of more than MAX_FRAME_SIZE octets: a DATA frame
\* whose payload has MAX_FRAME_SIZE octets, frames followed by MAX_FRAME_SIZE
\* further octets, and MAX_FRAME_SIZE + 1 octets of an unknown command.  The
\* message itself is not kept, only its length and what decode returned.
DecodeOversize ==
    /\ cstep = "start"
    /\ \E k \in 1..4 :
          LET b == IF k = 1 THEN encode(Data(1, Rep(MaxFrameSize, 7)))
                   ELSE IF k = 2 THEN << CmdPing >> \o Rep(MaxFrameSize, 0)
                   ELSE IF k = 3 THEN encode(Close(1)) \o Rep(MaxFrameSize, 0)
                   ELSE Rep(MaxFrameSize + 1, 9)
          IN  oversize' = [len |-> Len(b), out |-> Outcome(decode(b))]
    /\ cstep' = "oversize"
    /\ UNCHANGED << frame, wire, decoded, hostIn, hostOk, socksIn, socksOut, uvars, pvars >>

CodecNext == RoundTrip \/ DecodeBytes \/ CheckHost \/ SocksAdmit \/ DecodeOversize

(***************************************************************************)
(* PacketBufPool (packet_pool.rs)                                          *)
(***************************************************************************)
\* Largest queue capacity and buffer size of a pool.
MaxCapacity == 2
MaxBufSize == 2
\* The tasks that share the pool through its clones.
Holders == {1, 2}

\* A Vec<u8> is known by its capacity and its length; NoBuf: no vector.
Buf(c, l) == [cap |-> c, len |-> l]
NoBuf == [cap |-> -1, len |-> -1]
NoOp == [op |-> "none", buf |-> NoBuf, reused |-> FALSE, pushed |-> FALSE]

\* Vec::clear, Vec::reserve (the least capacity it may leave), Vec::set_len.
Clear(b) == [b EXCEPT !.len = 0]
Reserve(b, additional) ==
    IF b.cap - b.len >= additional THEN b
    ELSE [b EXCEPT !.cap = b.len + additional]
\* A set_len that leaves the length as it is.
KeepLen(b, n) == b
SetLen(b, n) == [b EXCEPT !.len = n]

\* An ArrayQueue that takes every push.
PushUnbounded(q, k, b) == Append(q, b)
\* ArrayQueue::push on a queue made with capacity k: a full queue gives the
\* value back and stays as it is.
Push(q, k, b) == IF Len(q) < k THEN Append(q, b) ELSE q

\* A return_buf that recycles every vector.
AnyCapacity(c, m) == TRUE
\* buf.capacity() >= self.buf_size.
CapacityEnough(c, m) == c >= m

\* PacketBufPool::get on queue q with buf_size m: the vector returned and the
\* queue left.
get(q, m) ==
    IF q # << >>
      THEN LET cleared == Clear(Head(q))
               grown == IF cleared.cap < m THEN Reserve(cleared, m - cleared.len)
                        ELSE cleared
           IN  [buf |-> SetLen(grown, m), pool |-> Tail(q), reused |-> TRUE]
      ELSE [buf |-> Buf(m, m), pool |-> q, reused |-> FALSE]

\* PacketBufPool::return_buf: the queue left; the result of push is ignored.
return_buf(q, k, m, b) ==
    IF CapacityEnough(b.cap, m) THEN Push(q, k, b) ELSE q

\* The vectors a holder may own: grown, shrunk to nothing or to just under
\* buf_size, truncated or full.
CallerBufs ==
    { b \in { Buf(c, l) : c \in {0, buf_size - 1, buf_size, buf_size + 1},
                          l \in {0, buf_size} } : b.cap >= 0 /\ b.len <= b.cap }

\* The fields of the other components in a run of one component.
PoolIdle ==
    /\ capacity = 1
    /\ buf_size = 0
    /\ pool = << >>
    /\ held = [h \in Holders |-> NoBuf]
    /\ poolOp = NoOp

\* PacketBufPool::new(capacity, buf_size); ArrayQueue::new panics on a
\* capacity of 0, so a pool has room for at least one vector.
PoolInit ==
    /\ capacity \in 1..MaxCapacity
    /\ buf_size \in 0..MaxBufSize
    /\ pool = << >>
    /\ held = [h \in Holders |-> NoBuf]
    /\ poolOp = NoOp

\* A holder calls get().
Get(h) ==
    /\ held[h] = NoBuf
    /\ LET r == get(pool, buf_size)
       IN  /\ held' = [held EXCEPT ![h] = r.buf]
           /\ pool' = r.pool
           /\ poolOp' = [op |-> "get", buf |-> r.buf, reused |-> r.reused,
                         pushed |-> FALSE]
    /\ UNCHANGED << hvars, capacity, buf_size, replayVars, pvars >>

\* A holder calls return_buf with the vector it owns.
ReturnBuf(h) ==
    /\ held[h] # NoBuf
    /\ pool' = return_buf(pool, capacity, buf_size, held[h])
    /\ held' = [held EXCEPT ![h] = NoBuf]
    /\ poolOp' = [op |-> "return_buf", buf |-> held[h], reused |-> FALSE,
                  pushed |-> pool' # pool]
    /\ UNCHANGED << hvars, capacity, buf_size, replayVars, pvars >>

\* A holder truncates, shrinks or grows its vector, or makes a vector of its
\* own.
CallerVec(h) ==
    /\ \E b \in CallerBufs :
          /\ b # held[h]
          /\ held' = [held EXCEPT ![h] = b]
    /\ UNCHANGED << hvars, capacity, buf_size, pool, poolOp, replayVars, pvars >>

PoolNext == \E h \in Holders : Get(h) \/ ReturnBuf(h) \/ CallerVec(h)

(***************************************************************************)
(* ReplayProtection (replay_protection.rs)                                 *)
(***************************************************************************)
\* Time is counted in units of 10 s: CLEANUP_INTERVAL is 6 units.  The clock
\* is followed up to MaxTime; max_age comes from with_max_age.
CleanupInterval == 6
MaxTime == 6
MaxAges == {0, 1, 3, 4}
\* The nonce n stands for [n; 12].
Nonces == {1, 2}
\* seen_nonces[n] when the map has no entry for n.
Absent == -1
NoCheck == [nonce |-> 0, result |-> FALSE, at |-> 0, flip |-> FALSE]

\* Instant::duration_since: zero when the other instant is later.
DurationSince(later, earlier) == IF later >= earlier THEN later - earlier ELSE 0

\* A cleanup that keeps nothing.
NeverFresh(age, max) == FALSE
\* cleanup_old_nonces keeps the entries with duration_since(timestamp) < max_age.
Fresh(age, max) == age < max

\* now.duration_since(self.last_cleanup) > self.max_age.min(CLEANUP_INTERVAL) / 2.
CleanupDue(now, last, max) ==
    2 * DurationSince(now, last) > Min(max, CleanupInterval)

\* cleanup_old_nonces at instant now.
cleanup_old_nonces(seen, now, max) ==
    [n \in Nonces |->
        IF seen[n] # Absent /\ Fresh(DurationSince(now, seen[n]), max)
          THEN seen[n] ELSE Absent]

ReplayIdle ==
    /\ seen_nonces = [n \in Nonces |-> Absent]
    /\ max_age = 0
    /\ last_cleanup = 0
    /\ clock = 0
    /\ lastCheck = NoCheck

\* ReplayProtection::with_max_age.
ReplayInit ==
    /\ seen_nonces = [n \in Nonces |-> Absent]
    /\ max_age \in MaxAges
    /\ last_cleanup = 0
    /\ clock = 0
    /\ lastCheck = NoCheck

\* Time passes between calls.
Tick ==
    /\ clock < MaxTime
    /\ clock' = clock + 1
    /\ UNCHANGED << hvars, poolVars, seen_nonces, max_age, last_cleanup, lastCheck,
                    pvars >>

\* check_and_record(n).  The call reads the clock once, and once more inside
\* cleanup_old_nonces, where it may have moved on.
check_and_record(n) ==
    /\ \E later \in {clock, Min(clock + 1, MaxTime)} :
          LET now == clock
              due == CleanupDue(now, last_cleanup, max_age)
              kept == IF due THEN cleanup_old_nonces(seen_nonces, later, max_age)
                      ELSE seen_nonces
              fresh == kept[n] = Absent
          IN  /\ due \/ later = clock
              /\ clock' = later
              /\ last_cleanup' = IF due THEN now ELSE last_cleanup
              /\ seen_nonces' = IF fresh THEN [kept EXCEPT ![n] = now] ELSE kept
              /\ lastCheck' = [nonce |-> n, result |-> fresh, at |-> now,
                               flip |-> ~lastCheck.flip]
    /\ UNCHANGED << hvars, poolVars, max_age, pvars >>

ReplayNext == Tick \/ \E n \in Nonces : check_and_record(n)

(***************************************************************************)
(* The environment of one run.                                             *)
(***************************************************************************)
\* conns: the SOCKS5 connections made; hosts: the hosts they may ask for;
\* localMax / originMax: octets each local endpoint / origin has to send;
\* chunk: most octets one read returns; pings: calls of ping(); faults: which
\* I/O may fail ("transport", "origin", "local"); eof: which ends may close
\* ("origin", "local"); raw: encoded messages sent to the relay by a peer that
\* is not a TunnelClient; rawDown: encoded messages sent to the client by a
\* relay that is not a TunnelSession; late: that peer speaks only once the client's
\* streams are in the relay session's map; churn: how many further streams
\* are opened and closed while a stream stays open (see Churn); paced: see
\* Paced.
Quiet ==
    [conns |-> {}, hosts |-> { << 97 >> }, localMax |-> [c \in Conns |-> 0],
     originMax |-> [i \in Ids |-> 0], chunk |-> 1, pings |-> 0, faults |-> {},
     eof |-> {}, raw |-> << >>, rawDown |-> << >>, late |-> FALSE,
     churn |-> 0, paced |-> FALSE]

OnlyConn1(v) == [c \in Conns |-> IF c = 1 THEN v ELSE 0]
BothConns(v, w) == [c \in Conns |-> IF c = 1 THEN v ELSE w]
Solo == [Quiet EXCEPT !.conns = {1}]
Duo == [Quiet EXCEPT !.conns = {1, 2}]

\* One exchange on one stream, everything may fail, either host.
PFaulty ==
    [Solo EXCEPT !.hosts = HostSamples, !.localMax = OnlyConn1(1),
                 !.originMax = OnlyConn1(1),
                 !.faults = {"transport", "origin", "local"},
                 !.eof = {"origin", "local"}]
\* An upload in single-octet reads against a failing origin.
PUpload ==
    [Solo EXCEPT !.localMax = OnlyConn1(MaxLocalBytes), !.faults = {"origin"},
                 !.eof = {"origin", "local"}]
\* A download in single-octet reads, with keepalives, to a failing local end
\* over a failing transport.
PDownload ==
    [Solo EXCEPT !.originMax = OnlyConn1(MaxOriginBytes), !.pings = MaxPings,
                 !.faults = {"local", "transport"}, !.eof = {"origin", "local"}]
\* Both directions at once, reads of up to two octets.
PDuplex ==
    [Solo EXCEPT !.localMax = OnlyConn1(2), !.originMax = OnlyConn1(2),
                 !.chunk = 2, !.eof = {"origin", "local"}]
\* Two streams multiplexed: uploads, downloads, and opening and closing.
PTwoUp == [Duo EXCEPT !.localMax = BothConns(1, 2)]
PTwoDown == [Duo EXCEPT !.originMax = BothConns(1, 1)]
PTwoClose == [Duo EXCEPT !.eof = {"origin", "local"}]
\* Two streams against a failing origin, one of them uploading.
PTwoErr == [Duo EXCEPT !.localMax = BothConns(1, 0), !.faults = {"origin"}]
\* Bulk transfers that fill the send queue and an inbox.
PBulkUp ==
    [Solo EXCEPT !.localMax = OnlyConn1(SendQueueCap + BulkExtra), !.paced = TRUE]
PBulkDown ==
    [Solo EXCEPT !.originMax = OnlyConn1(InboxCap + BulkExtra), !.paced = TRUE]
\* A peer that sends PONG, an unknown command and an ERROR frame.
PRaw ==
    [Quiet EXCEPT !.raw = << encode(Pong), << 9 >>,
                             encode(ErrorReply(1, 0, << >>)) >>]
\* A peer that, once the client's stream is established, sends DATA for a
\* stream that was never opened and repeats the CONNECT of the established
\* stream, with a host that passes the filter and with one that does not.
PDup ==
    [Solo EXCEPT !.localMax = OnlyConn1(1), !.late = TRUE,
                 !.raw = << encode(Data(2, << 7 >>)),
                            encode(Connect(1, << 97 >>, PortSample)),
                            encode(Connect(1, << 102, 99 >>, PortSample)) >>]

\* A relay that sends PING, an unknown command and a truncated DATA frame to
\* a client with one stream.
PPeer ==
    [Solo EXCEPT !.originMax = OnlyConn1(1),
                 !.rawDown = << encode(Ping), << 9 >>, << CmdData, 0 >> >>]

\* A long-lived stream, 2^32 - 1 short streams after it, then one more stream.
PWrap == [Duo EXCEPT !.churn = U32Max, !.originMax = BothConns(1, 1)]

\* Two SOCKS5 connections over a transport that fails, with local endpoints
\* that may be gone when the handler replies.
PTwoFail == [Duo EXCEPT !.faults = {"transport", "local"}]

\* A stream in both directions on an upstream channel that closes or fails.
PChannel ==
    [Solo EXCEPT !.localMax = OnlyConn1(1), !.originMax = OnlyConn1(1),
                 !.faults = {"channel"}, !.eof = {"origin"}]

Profiles ==
    { PFaulty, PUpload, PDownload, PDuplex, PTwoUp, PTwoDown, PTwoClose,
      PTwoErr, PBulkUp, PBulkDown, PRaw, PDup, PPeer, PWrap, PTwoFail,
      PChannel }

ProtoInit ==
    /\ rawSent = 0
    /\ rawDownSent = 0
    /\ next_stream_id = 1
    /\ sendq = << >>
    /\ sendqOpen = TRUE
    /\ streams = {}
    /\ owner = [i \in Ids |-> 0]
    /\ inbox = [c \in Conns |-> << >>]
    /\ readerBlocked = NoBlock
    /\ readerAlive = TRUE
    /\ pc = [c \in Conns |-> "idle"]
    /\ sid = [c \in Conns |-> 0]
    /\ host = [c \in Conns |-> << >>]
    /\ l2t = [c \in Conns |-> "none"]
    /\ l2tPending = [c \in Conns |-> << >>]
    /\ t2l = [c \in Conns |-> "none"]
    /\ localRead = [c \in Conns |-> 0]
    /\ localOut = [c \in Conns |-> << >>]
    /\ pings = 0
    /\ closeSent = [c \in Conns |-> 0]
    /\ reply = [c \in Conns |-> << >>]
    /\ cTerminal = {}
    /\ c2s = << >>
    /\ s2c = << >>
    /\ active_streams = {}
    /\ oreader = [i \in Ids |-> "none"]
    /\ originRead = [i \in Ids |-> 0]
    /\ originOut = [i \in Ids |-> << >>]
    /\ srvWrite = NoWrite
    /\ srvPanicked = FALSE
    /\ sTerminal = {}
    /\ channel = "open"

(***************************************************************************)
(* Client: TunnelClient (tunnel.rs)                                        *)
(***************************************************************************)
\* A send queue that never makes its producers wait.
SendqAlwaysRoom == TRUE
SendqHasRoom == Len(sendq) < SendQueueCap
\* The streams mutex is held across an await only by the reader task, while
\* it waits for room in an inbox.
MutexFree == readerBlocked = NoBlock
\* The connection whose inbox the table entry of id feeds.
ConnOf(id) == owner[id]
\* The sender of connection c's inbox is in the stream table.
SenderLive(c) == sid[c] \in streams /\ owner[sid[c]] = c
\* The inbox receiver lives in the tunnel_to_local task (before that, in the
\* caller of open_stream).
RxAlive(c) == t2l[c] # "done" /\ pc[c] # "dropped"
\* mpsc::Sender::send into the send queue: the queue after the send.
Enqueue(q, m) == Append(q, m)
\* An inbox that hands out the newest payload first.
InboxPushFront(q, p) == << p >> \o q
\* mpsc::Sender::send into an inbox.
InboxPush(q, p) == Append(q, p)
\* HashMap::insert / HashMap::remove on the stream table.
StreamsInsert(tbl, id) == tbl \cup {id}
\* A remove that leaves the entry in place.
StreamsKeep(tbl, id) == tbl
\* A remove that empties the table.
StreamsClear(tbl, id) == {}
StreamsRemove(tbl, id) == tbl \ {id}
\* A paced run has a slow environment: the transport carries one message at a
\* time, the relay's runtime delivers a message only when no handler is
\* suspended, and an origin sends only to a client whose relay() is running.
Paced(q) == cfg.paced => q = << >>

\* open_stream: next_stream_id.fetch_add(1).
OpenAlloc(c) ==
    /\ c \in cfg.conns
    /\ pc[c] = "idle"
    /\ next_stream_id \in Ids
    /\ \E h \in cfg.hosts : host' = [host EXCEPT ![c] = h]
    /\ sid' = [sid EXCEPT ![c] = next_stream_id]
    /\ next_stream_id' = WrapAdd1(next_stream_id)
    /\ pc' = [pc EXCEPT ![c] = "alloc"]
    /\ UNCHANGED << cvars, envVars, owner, reply, sendq, sendqOpen, streams, inbox, readerBlocked,
                    readerAlive, l2t, l2tPending, t2l, localRead, localOut, pings,
                    closeSent, cTerminal, c2s, s2c, serverVars >>

\* n + k modulo 2^32 on the signed patterns, for the k the profiles use.
WrapAdd(n, k) ==
    IF k = U32Max THEN (IF n = -2147483647 - 1 THEN 2147483647 ELSE n - 1)
    ELSE n + k

\* cfg.churn calls of open_stream, one after the other, each followed by a
\* relay() that ends and leaves nothing behind, made while connection c keeps
\* its stream and nobody else has one: their only lasting effect is that
\* fetch_add has run cfg.churn times.  The calls take the IDs that follow c's;
\* with cfg.churn = 2^32 - 1 that is every ID but c's own.
Churn(c) ==
    /\ cfg.churn # 0
    /\ c \in cfg.conns /\ pc[c] = "relay"
    /\ \A d \in Conns \ {c} : pc[d] = "idle"
    /\ next_stream_id = WrapAdd1(sid[c])
    /\ sendqOpen /\ readerAlive
    /\ sendq = << >> /\ c2s = << >> /\ s2c = << >>
    /\ readerBlocked = NoBlock /\ srvWrite = NoWrite
    /\ next_stream_id' = WrapAdd(next_stream_id, cfg.churn)
    /\ UNCHANGED << cvars, envVars, owner, reply, sendq, sendqOpen, streams, inbox,
                    readerBlocked, readerAlive, pc, sid, host, l2t, l2tPending, t2l,
                    localRead, localOut, pings, closeSent, cTerminal, c2s, s2c,
                    serverVars >>

\* handle_socks5_connection after open_stream: send_reply(REP_SUCCESS) if it
\* returned Ok, send_reply(REP_HOST_UNREACHABLE) if it returned Err.
SocksReply(r, c, opened) ==
    [r EXCEPT ![c] = Append(@, IF opened THEN RepSuccess ELSE RepHostUnreachable)]

\* open_stream: self.sender.send(Connect).await?  When the send fails,
\* open_stream returns Err and the SOCKS5 handler writes its reply, or fails
\* to write it, and returns.
OpenSend(c) ==
    /\ pc[c] = "alloc"
    /\ \/ /\ sendqOpen /\ SendqHasRoom
          /\ sendq' = Enqueue(sendq, Connect(sid[c], host[c], PortSample))
          /\ pc' = [pc EXCEPT ![c] = "sent"]
          /\ UNCHANGED reply
       \/ /\ ~sendqOpen
          /\ pc' = [pc EXCEPT ![c] = "failed"]
          /\ \/ reply' = SocksReply(reply, c, FALSE)
             \/ "local" \in cfg.faults /\ UNCHANGED reply
          /\ UNCHANGED sendq
    /\ UNCHANGED << cvars, envVars, owner, next_stream_id, sendqOpen, streams, inbox,
                    readerBlocked, readerAlive, sid, host, l2t, l2tPending, t2l,
                    localRead, localOut, pings, closeSent, cTerminal, c2s, s2c,
                    serverVars >>

\* open_stream: create the inbox, lock, insert; then the SOCKS5 handler replies
\* and relay() spawns its two tasks.  If the reply cannot be written the
\* handler returns Err at once: the inbox receiver is dropped and relay() is
\* never called.
OpenInsert(c) ==
    /\ pc[c] = "sent"
    /\ MutexFree
    /\ streams' = StreamsInsert(streams, sid[c])
    /\ owner' = [owner EXCEPT ![sid[c]] = c]
    /\ \/ /\ reply' = SocksReply(reply, c, TRUE)
          /\ pc' = [pc EXCEPT ![c] = "relay"]
          /\ l2t' = [l2t EXCEPT ![c] = "run"]
          /\ t2l' = [t2l EXCEPT ![c] = "run"]
       \/ /\ "local" \in cfg.faults
          /\ pc' = [pc EXCEPT ![c] = "dropped"]
          /\ UNCHANGED << reply, l2t, t2l >>
    /\ UNCHANGED << cvars, envVars, next_stream_id, sendq, sendqOpen, inbox,
                    readerBlocked, readerAlive, sid, host, l2tPending, localRead,
                    localOut, pings, closeSent, cTerminal, c2s, s2c, serverVars >>

\* local_to_tunnel: read_half.read(&mut buf) returns Ok(n), n > 0, then
\* sender.send(Data).await.
L2TRead(c) ==
    /\ l2t[c] = "run"
    /\ \E n \in 1..Min(Min(cfg.chunk, ReadBufSize), cfg.localMax[c] - localRead[c]) :
         LET payload == LocalBytes(sid[c], localRead[c], n) IN
         /\ localRead' = [localRead EXCEPT ![c] = @ + n]
         /\ \/ /\ sendqOpen /\ SendqHasRoom
               /\ sendq' = Enqueue(sendq, Data(sid[c], payload))
               /\ UNCHANGED << l2t, l2tPending >>
            \/ /\ sendqOpen /\ ~SendqHasRoom
               /\ l2t' = [l2t EXCEPT ![c] = "blocked"]
               /\ l2tPending' = [l2tPending EXCEPT ![c] = payload]
               /\ UNCHANGED sendq
            \/ /\ ~sendqOpen
               /\ l2t' = [l2t EXCEPT ![c] = "done"]
               /\ UNCHANGED << sendq, l2tPending >>
    /\ UNCHANGED << cvars, envVars, owner, reply, next_stream_id, sendqOpen, streams, inbox,
                    readerBlocked, readerAlive, pc, sid, host, t2l, localOut, pings,
                    closeSent, cTerminal, c2s, s2c, serverVars >>

\* local_to_tunnel: the pending send completes (room) or fails (queue closed).
L2TUnblock(c) ==
    /\ l2t[c] = "blocked"
    /\ \/ /\ sendqOpen /\ SendqHasRoom
          /\ sendq' = Enqueue(sendq, Data(sid[c], l2tPending[c]))
          /\ l2t' = [l2t EXCEPT ![c] = "run"]
       \/ /\ ~sendqOpen
          /\ l2t' = [l2t EXCEPT ![c] = "done"]
          /\ UNCHANGED sendq
    /\ l2tPending' = [l2tPending EXCEPT ![c] = << >>]
    /\ UNCHANGED << cvars, envVars, owner, reply, next_stream_id, sendqOpen, streams, inbox,
                    readerBlocked, readerAlive, pc, sid, host, t2l, localRead,
                    localOut, pings, closeSent, cTerminal, c2s, s2c, serverVars >>

\* local_to_tunnel: read returns Ok(0) (local EOF) or Err.
L2TEnd(c) ==
    /\ "local" \in cfg.eof
    /\ l2t[c] = "run"
    /\ l2t' = [l2t EXCEPT ![c] = "done"]
    /\ UNCHANGED << cvars, envVars, owner, reply, next_stream_id, sendq, sendqOpen, streams, inbox,
                    readerBlocked, readerAlive, pc, sid, host, l2tPending, t2l,
                    localRead, localOut, pings, closeSent, cTerminal, c2s, s2c,
                    serverVars >>

\* tunnel_to_local: rx.recv() yields a payload and write_all succeeds.
T2LWrite(c) ==
    /\ t2l[c] = "run"
    /\ inbox[c] # << >>
    /\ localOut' = [localOut EXCEPT ![c] = @ \o Head(inbox[c])]
    /\ inbox' = [inbox EXCEPT ![c] = Tail(@)]
    /\ UNCHANGED << cvars, envVars, owner, reply, next_stream_id, sendq, sendqOpen, streams,
                    readerBlocked, readerAlive, pc, sid, host, l2t, l2tPending, t2l,
                    localRead, pings, closeSent, cTerminal, c2s, s2c, serverVars >>

\* tunnel_to_local: write_all fails after k octets; the task ends and drops the
\* receiver with whatever the inbox still holds.
T2LWriteErr(c) ==
    /\ "local" \in cfg.faults
    /\ t2l[c] = "run"
    /\ inbox[c] # << >>
    /\ \E k \in 0..(Len(Head(inbox[c])) - 1) :
          localOut' = [localOut EXCEPT ![c] = @ \o SubSeq(Head(inbox[c]), 1, k)]
    /\ inbox' = [inbox EXCEPT ![c] = << >>]
    /\ t2l' = [t2l EXCEPT ![c] = "done"]
    /\ UNCHANGED << cvars, envVars, owner, reply, next_stream_id, sendq, sendqOpen, streams,
                    readerBlocked, readerAlive, pc, sid, host, l2t, l2tPending,
                    localRead, pings, closeSent, cTerminal, c2s, s2c, serverVars >>

\* tunnel_to_local: rx.recv() yields None: the inbox is empty and its sender
\* (the stream-table entry) has been dropped.
T2LClosed(c) ==
    /\ t2l[c] = "run"
    /\ inbox[c] = << >>
    /\ ~SenderLive(c)
    /\ t2l' = [t2l EXCEPT ![c] = "done"]
    /\ UNCHANGED << cvars, envVars, owner, reply, next_stream_id, sendq, sendqOpen, streams, inbox,
                    readerBlocked, readerAlive, pc, sid, host, l2t, l2tPending,
                    localRead, localOut, pings, closeSent, cTerminal, c2s, s2c,
                    serverVars >>

\* relay: select! sees one of the two tasks finished; send(Close).await, the
\* result ignored.  The other task is not aborted: its JoinHandle is dropped.
RelayClose(c) ==
    /\ pc[c] = "relay"
    /\ l2t[c] = "done" \/ t2l[c] = "done"
    /\ \/ /\ sendqOpen /\ SendqHasRoom
          /\ sendq' = Enqueue(sendq, Close(sid[c]))
          /\ closeSent' = [closeSent EXCEPT ![c] = @ + 1]
       \/ /\ ~sendqOpen
          /\ UNCHANGED << sendq, closeSent >>
    /\ pc' = [pc EXCEPT ![c] = "cleanup"]
    /\ UNCHANGED << cvars, envVars, owner, reply, next_stream_id, sendqOpen, streams, inbox,
                    readerBlocked, readerAlive, sid, host, l2t, l2tPending, t2l,
                    localRead, localOut, pings, cTerminal, c2s, s2c, serverVars >>

\* relay: lock, streams.remove(stream_id), return.
RelayCleanup(c) ==
    /\ pc[c] = "cleanup"
    /\ MutexFree
    /\ streams' = StreamsRemove(streams, sid[c])
    /\ pc' = [pc EXCEPT ![c] = "returned"]
    /\ UNCHANGED << cvars, envVars, owner, reply, next_stream_id, sendq, sendqOpen, inbox,
                    readerBlocked, readerAlive, sid, host, l2t, l2tPending, t2l,
                    localRead, localOut, pings, closeSent, cTerminal, c2s, s2c,
                    serverVars >>

\* TunnelClient::ping.
ClientPing ==
    /\ pings < cfg.pings
    /\ sendqOpen /\ SendqHasRoom
    /\ sendq' = Enqueue(sendq, Ping)
    /\ pings' = pings + 1
    /\ UNCHANGED << cvars, envVars, owner, reply, next_stream_id, sendqOpen, streams, inbox,
                    readerBlocked, readerAlive, pc, sid, host, l2t, l2tPending, t2l,
                    localRead, localOut, closeSent, cTerminal, c2s, s2c,
                    serverVars >>

\* Writer task: receiver.recv() then write.send(encoded) succeeds.
WriterSend ==
    /\ sendqOpen
    /\ sendq # << >>
    /\ Paced(c2s)
    /\ c2s' = Append(c2s, encode(Head(sendq)))
    /\ sendq' = Tail(sendq)
    /\ UNCHANGED << cvars, envVars, owner, reply, next_stream_id, sendqOpen, streams, inbox,
                    readerBlocked, readerAlive, pc, sid, host, l2t, l2tPending, t2l,
                    localRead, localOut, pings, closeSent, cTerminal, s2c,
                    serverVars >>

\* Writer task: write.send fails; the task ends and drops the queue's receiver.
WriterFail ==
    /\ "transport" \in cfg.faults
    /\ sendqOpen
    /\ sendq # << >>
    /\ sendqOpen' = FALSE
    /\ sendq' = << >>
    /\ UNCHANGED << cvars, envVars, owner, reply, next_stream_id, streams, inbox, readerBlocked,
                    readerAlive, pc, sid, host, l2t, l2tPending, t2l, localRead,
                    localOut, pings, closeSent, cTerminal, c2s, s2c, serverVars >>

\* Reader task: read.next() yields a binary message; decode and dispatch.
ReaderReady == readerAlive /\ readerBlocked = NoBlock /\ s2c # << >>
ReaderMsg == decode(Head(s2c))

\* Reader task, Data arm: lock, look the stream up, tx.send(payload).await.
ReaderData ==
    /\ ReaderReady
    /\ ReaderMsg.res = "Ok" /\ ReaderMsg.msg.type = "Data"
    /\ s2c' = Tail(s2c)
    /\ LET id == ReaderMsg.msg.stream_id
           payload == ReaderMsg.msg.payload
       IN  IF id \in streams
             THEN LET c == ConnOf(id) IN
                  IF ~RxAlive(c)
                    THEN UNCHANGED << inbox, readerBlocked >>
                  ELSE IF Len(inbox[c]) < InboxCap
                    THEN /\ inbox' = [inbox EXCEPT ![c] = InboxPush(@, payload)]
                         /\ UNCHANGED readerBlocked
                  ELSE /\ readerBlocked' = [sid |-> id, payload |-> payload]
                       /\ UNCHANGED inbox
             ELSE UNCHANGED << inbox, readerBlocked >>
    /\ UNCHANGED << cvars, envVars, owner, reply, next_stream_id, sendq, sendqOpen, streams,
                    readerAlive, pc, sid, host, l2t, l2tPending, t2l, localRead,
                    localOut, pings, closeSent, cTerminal, c2s, serverVars >>

\* Reader task: the send it was suspended in completes (room in the inbox) or
\* fails (receiver dropped); the lock is released.
ReaderUnblock ==
    /\ readerBlocked # NoBlock
    /\ LET c == ConnOf(readerBlocked.sid) IN
         \/ /\ RxAlive(c) /\ Len(inbox[c]) < InboxCap
            /\ inbox' = [inbox EXCEPT ![c] = InboxPush(@, readerBlocked.payload)]
         \/ /\ ~RxAlive(c)
            /\ UNCHANGED inbox
    /\ readerBlocked' = NoBlock
    /\ UNCHANGED << cvars, envVars, owner, reply, next_stream_id, sendq, sendqOpen, streams,
                    readerAlive, pc, sid, host, l2t, l2tPending, t2l, localRead,
                    localOut, pings, closeSent, cTerminal, c2s, s2c, serverVars >>

\* Reader task, Close and ErrorReply arms: lock, streams.remove(stream_id).
ReaderTerminal ==
    /\ ReaderReady
    /\ ReaderMsg.res = "Ok" /\ ReaderMsg.msg.type \in {"Close", "ErrorReply"}
    /\ s2c' = Tail(s2c)
    /\ streams' = StreamsRemove(streams, ReaderMsg.msg.stream_id)
    /\ cTerminal' = cTerminal \cup {ReaderMsg.msg.stream_id}
    /\ UNCHANGED << cvars, envVars, owner, reply, next_stream_id, sendq, sendqOpen, inbox,
                    readerBlocked, readerAlive, pc, sid, host, l2t, l2tPending, t2l,
                    localRead, localOut, pings, closeSent, c2s, serverVars >>
\* A reader that stops at a message that does not decode.
ReaderStopsOnBadFrame ==
    /\ ReaderReady
    /\ IF ReaderMsg.res = "Ok"
         THEN ReaderMsg.msg.type \notin {"Data", "Close", "ErrorReply"}
         ELSE TRUE
    /\ s2c' = Tail(s2c)
    /\ readerAlive' = (ReaderMsg.res = "Ok")
    /\ UNCHANGED << cvars, envVars, next_stream_id, sendq, sendqOpen, streams,
                    owner, reply, inbox, readerBlocked, pc, sid, host, l2t, l2tPending,
                    t2l, localRead, localOut, pings, closeSent, cTerminal, c2s,
                    serverVars >>
\* Reader task: Pong, the `_ => {}` arm, and messages that do not decode.
ReaderIgnore ==
    /\ ReaderReady
    /\ IF ReaderMsg.res = "Ok"
         THEN ReaderMsg.msg.type \notin {"Data", "Close", "ErrorReply"}
         ELSE TRUE
    /\ s2c' = Tail(s2c)
    /\ UNCHANGED << cvars, envVars, clientVars, c2s, serverVars >>

\* Reader task: read.next() yields Err or Close; the loop breaks.
ReaderFail ==
    /\ "transport" \in cfg.faults
    /\ readerAlive /\ readerBlocked = NoBlock
    /\ readerAlive' = FALSE
    /\ UNCHANGED << cvars, envVars, owner, reply, next_stream_id, sendq, sendqOpen, streams, inbox,
                    readerBlocked, pc, sid, host, l2t, l2tPending, t2l, localRead,
                    localOut, pings, closeSent, cTerminal, c2s, s2c, serverVars >>

(***************************************************************************)
(* Relay session: TunnelSession (tunnel_session.rs)                        *)
(***************************************************************************)
\* A send that puts the frame on the channel twice.
WsSendTwice(q, m) == Append(Append(q, encode(m)), encode(m))
\* WebSocket::send_with_bytes of an encoded frame.
WsSend(q, m) == Append(q, encode(m))
\* A remove that leaves the write-half in the map.
MapKeep(map, id) == map
\* HashMap::insert / HashMap::remove on active_streams.
MapInsert(map, id) == map \cup {id}
MapRemove(map, id) == map \ {id}
\* active_streams is borrowed mutably while handle_data awaits write_all.
Borrowed == srvWrite # NoWrite
\* A send on the session's WebSocket: it fails, and the failure is ignored,
\* once the channel has been closed or has failed.
SendIfOpen(q, m) == IF channel = "open" THEN WsSend(q, m) ELSE q
SrvMsg == decode(Head(c2s))
SrvGot(t) ==
    /\ c2s # << >>
    /\ channel = "open"
    /\ cfg.paced => srvWrite = NoWrite
    /\ SrvMsg.res = "Ok" /\ SrvMsg.msg.type = t

\* websocket_message: a binary message from a peer that is not a TunnelClient.
RawSend ==
    /\ rawSent < Len(cfg.raw)
    /\ cfg.late => \A c \in cfg.conns : sid[c] \in active_streams
    /\ c2s' = Append(c2s, cfg.raw[rawSent + 1])
    /\ rawSent' = rawSent + 1
    /\ UNCHANGED << cvars, cfg, rawDownSent, clientVars, s2c, serverVars >>

\* read.next() of the client's reader task: a binary message from a relay
\* that is not a TunnelSession.
PeerSend ==
    /\ rawDownSent < Len(cfg.rawDown)
    /\ s2c' = Append(s2c, cfg.rawDown[rawDownSent + 1])
    /\ rawDownSent' = rawDownSent + 1
    /\ UNCHANGED << cvars, cfg, rawSent, clientVars, c2s, serverVars >>

\* handle_binary_message, Connect arm, and handle_connect.
SrvConnect ==
    /\ SrvGot("Connect")
    /\ c2s' = Tail(c2s)
    /\ LET id == SrvMsg.msg.stream_id IN
       IF ~is_valid_host(SrvMsg.msg.host)
         THEN /\ s2c' = WsSend(s2c, ErrorReply(id, 400, MsgInvalidHost))
              /\ UNCHANGED serverVars
       ELSE IF Borrowed
         THEN \* active_streams.borrow() while mutably borrowed: panic
              /\ srvPanicked' = TRUE
              /\ UNCHANGED << s2c, active_streams, oreader, originRead, originOut,
                              srvWrite, sTerminal, channel >>
       ELSE IF id \in active_streams
         THEN /\ s2c' = WsSend(s2c, ErrorReply(id, 409, MsgDuplicate))
              /\ UNCHANGED serverVars
       ELSE \/ \* Socket::builder().connect is Ok: spawn the reader, insert
               /\ id \in Ids
               /\ oreader' = [oreader EXCEPT ![id] = "run"]
               /\ active_streams' = MapInsert(active_streams, id)
               /\ UNCHANGED << s2c, originRead, originOut, srvWrite, srvPanicked,
                               sTerminal, channel >>
            \/ \* connect is Err
               /\ "origin" \in cfg.faults
               /\ s2c' = WsSend(s2c, ErrorReply(id, 502, MsgConnectFailed))
               /\ UNCHANGED serverVars
    /\ UNCHANGED << cvars, envVars, clientVars >>

\* handle_data up to the await of write_all (or to its return).
SrvData ==
    /\ SrvGot("Data")
    /\ c2s' = Tail(c2s)
    /\ LET id == SrvMsg.msg.stream_id IN
       IF Borrowed
         THEN \* active_streams.borrow_mut() while borrowed: panic
              /\ srvPanicked' = TRUE
              /\ UNCHANGED << s2c, srvWrite >>
       ELSE IF id \in active_streams
         THEN /\ srvWrite' = [sid |-> id, payload |-> SrvMsg.msg.payload]
              /\ UNCHANGED << s2c, srvPanicked >>
       ELSE /\ s2c' = WsSend(s2c, ErrorReply(id, 404, MsgNotFound))
            /\ UNCHANGED << srvWrite, srvPanicked >>
    /\ UNCHANGED << cvars, envVars, clientVars, active_streams, oreader, originRead,
                    originOut, sTerminal, channel >>

\* handle_data: write_all returns Ok.
SrvWriteOk ==
    /\ Borrowed
    /\ originOut' = [originOut EXCEPT ![srvWrite.sid] = @ \o srvWrite.payload]
    /\ srvWrite' = NoWrite
    /\ UNCHANGED << cvars, envVars, clientVars, c2s, s2c, active_streams, oreader,
                    originRead, srvPanicked, sTerminal, channel >>

\* handle_data: write_all returns Err after k octets; remove and reply 500.
SrvWriteErr ==
    /\ "origin" \in cfg.faults
    /\ Borrowed
    /\ \E k \in 0..(Len(srvWrite.payload) - 1) :
          originOut' = [originOut EXCEPT ![srvWrite.sid] =
                            @ \o SubSeq(srvWrite.payload, 1, k)]
    /\ active_streams' = MapRemove(active_streams, srvWrite.sid)
    /\ s2c' = SendIfOpen(s2c, ErrorReply(srvWrite.sid, 500, MsgWriteError))
    /\ srvWrite' = NoWrite
    /\ UNCHANGED << cvars, envVars, clientVars, c2s, oreader, originRead, srvPanicked,
                    sTerminal, channel >>

\* handle_close.
SrvClose ==
    /\ SrvGot("Close")
    /\ c2s' = Tail(c2s)
    /\ LET id == SrvMsg.msg.stream_id IN
       IF Borrowed
         THEN /\ srvPanicked' = TRUE
              /\ UNCHANGED << active_streams, sTerminal, channel >>
         ELSE /\ active_streams' = MapRemove(active_streams, id)
              /\ sTerminal' = sTerminal \cup {id}
              /\ UNCHANGED srvPanicked
    /\ UNCHANGED << cvars, envVars, clientVars, s2c, oreader, originRead, originOut,
                    srvWrite, channel >>

\* handle_binary_message, Ping arm.
SrvPing ==
    /\ SrvGot("Ping")
    /\ c2s' = Tail(c2s)
    /\ s2c' = WsSend(s2c, Pong)
    /\ UNCHANGED << cvars, envVars, clientVars, serverVars >>

\* handle_binary_message: Pong, ErrorReply, and messages that do not decode.
SrvIgnore ==
    /\ c2s # << >>
    /\ channel = "open"
    /\ IF SrvMsg.res = "Ok" THEN SrvMsg.msg.type \in {"Pong", "ErrorReply"} ELSE TRUE
    /\ c2s' = Tail(c2s)
    /\ UNCHANGED << cvars, envVars, clientVars, s2c, serverVars >>

\* Origin reader task: read returns Ok(n), n > 0; send a DATA frame.  When
\* the send fails (the channel is gone) the task ends and removes nothing.
OriginData(id) ==
    /\ oreader[id] = "run"
    /\ Paced(s2c)
    /\ cfg.paced => \A c \in cfg.conns : pc[c] = "relay"
    /\ \E n \in 1..Min(Min(cfg.chunk, ReadBufSize), cfg.originMax[id] - originRead[id]) :
          /\ s2c' = SendIfOpen(s2c, Data(id, OriginBytes(id, originRead[id], n)))
          /\ originRead' = [originRead EXCEPT ![id] = @ + n]
    /\ oreader' = IF channel = "open" THEN oreader
                  ELSE [oreader EXCEPT ![id] = "done"]
    /\ UNCHANGED << cvars, envVars, clientVars, c2s, active_streams, originOut,
                    srvWrite, srvPanicked, sTerminal, channel >>

\* Origin reader task: read returns Ok(0): send CLOSE, remove the entry, end.
OriginEof(id) ==
    /\ "origin" \in cfg.eof
    /\ oreader[id] = "run"
    /\ s2c' = SendIfOpen(s2c, Close(id))
    /\ oreader' = [oreader EXCEPT ![id] = "done"]
    /\ IF Borrowed
         THEN srvPanicked' = TRUE /\ UNCHANGED active_streams
         ELSE active_streams' = MapRemove(active_streams, id) /\ UNCHANGED srvPanicked
    /\ UNCHANGED << cvars, envVars, clientVars, c2s, originRead, originOut, srvWrite,
                    sTerminal, channel >>

\* Origin reader task: read returns Err: send ERROR 500, remove the entry, end.
OriginErr(id) ==
    /\ "origin" \in cfg.faults
    /\ oreader[id] = "run"
    /\ s2c' = SendIfOpen(s2c, ErrorReply(id, 500, MsgReadError))
    /\ oreader' = [oreader EXCEPT ![id] = "done"]
    /\ IF Borrowed
         THEN srvPanicked' = TRUE /\ UNCHANGED active_streams
         ELSE active_streams' = MapRemove(active_streams, id) /\ UNCHANGED srvPanicked
    /\ UNCHANGED << cvars, envVars, clientVars, c2s, originRead, originOut, srvWrite,
                    sTerminal, channel >>

\* websocket_close: the upstream channel is closed; count the streams and
\* clear the map.  The borrow panics while handle_data holds the map.
WsClose ==
    /\ "channel" \in cfg.faults
    /\ channel = "open"
    /\ channel' = "closed"
    /\ IF Borrowed
         THEN srvPanicked' = TRUE /\ UNCHANGED active_streams
         ELSE active_streams' = {} /\ UNCHANGED srvPanicked
    /\ UNCHANGED << cvars, envVars, clientVars, c2s, s2c, oreader, originRead,
                    originOut, srvWrite, sTerminal >>

\* websocket_error: the upstream channel has failed; the handler logs.
WsError ==
    /\ "channel" \in cfg.faults
    /\ channel = "open"
    /\ channel' = "failed"
    /\ UNCHANGED << cvars, envVars, clientVars, c2s, s2c, active_streams, oreader,
                    originRead, originOut, srvWrite, srvPanicked, sTerminal >>

ClientNext ==
    \/ \E c \in Conns :
          \/ OpenAlloc(c) \/ Churn(c) \/ OpenSend(c) \/ OpenInsert(c)
          \/ L2TRead(c) \/ L2TUnblock(c) \/ L2TEnd(c)
          \/ T2LWrite(c) \/ T2LWriteErr(c) \/ T2LClosed(c)
          \/ RelayClose(c) \/ RelayCleanup(c)
    \/ ClientPing \/ WriterSend \/ WriterFail
    \/ ReaderData \/ ReaderUnblock \/ ReaderTerminal \/ ReaderIgnore \/ ReaderFail

ServerNext ==
    \/ SrvConnect \/ SrvData \/ SrvWriteOk \/ SrvWriteErr \/ SrvClose
    \/ SrvPing \/ SrvIgnore \/ RawSend \/ PeerSend \/ WsClose \/ WsError
    \/ \E id \in Ids : OriginData(id) \/ OriginEof(id) \/ OriginErr(id)

Next == ClientNext \/ ServerNext

Init == CodecInit /\ PoolIdle /\ ReplayIdle /\ cfg \in Profiles /\ ProtoInit
Spec == Init /\ [][Next]_vars
InitCodec == CodecInit /\ PoolIdle /\ ReplayIdle /\ cfg = Quiet /\ ProtoInit
SpecCodec == InitCodec /\ [][CodecNext]_vars
InitPool == CodecInit /\ PoolInit /\ ReplayIdle /\ cfg = Quiet /\ ProtoInit
SpecPool == InitPool /\ [][PoolNext]_vars
InitReplay == CodecInit /\ PoolIdle /\ ReplayInit /\ cfg = Quiet /\ ProtoInit
SpecReplay == InitReplay /\ [][ReplayNext]_vars

(***************************************************************************)
(* Properties                                                              *)
(***************************************************************************)
Last(s) == s[Len(s)]
\* p is a run of consecutive octets of one stream.
IsRun(p) == \A k \in 1..(Len(p) - 1) : p[k + 1] = p[k] + 1
\* s holds octets of one stream in the order of their positions.
Increasing(s) == \A k \in 1..(Len(s) - 1) : s[k] < s[k + 1]
\* The frame at the head of a transport queue, if it decodes.
HeadIs(q, types) ==
    /\ q # << >>
    /\ decode(Head(q)).res = "Ok"
    /\ decode(Head(q)).msg.type \in types

\* C1: for every frame f, decode(encode(f)) succeeds and returns f.
C1_RoundTrip ==
    cstep = "roundtrip" => decoded = Ok(frame)

\* C2: decode(b) returns a frame whose re-encoding is a prefix of b, or one of
\* the enumerated errors; it never reads past the end of b and never aborts.
C2_DecodeTotal ==
    cstep = "decoded" =>
        \/ decoded.res = "Ok" /\ IsPrefix(encode(decoded.msg), wire)
        \/ decoded.res = "Err" /\ decoded.err \in ProtoErrors

C2_Witness ==
    /\ cstep = "decoded"
    /\ decoded.res = "Ok"
    /\ decoded.msg.type = "Connect"
    /\ Len(decoded.msg.host) = 1
    /\ Len(wire) > Len(encode(decoded.msg))

\* C3: the octets written to a stream's origin write-half are the octets read
\* from the stream's local endpoint, in order, none lost inside and none twice
\* (the origin has a prefix of what the local endpoint wrote).
C3_UploadExact ==
    \A id \in Ids :
        originOut[id] # << >> =>
            /\ Len(originOut[id]) <= localRead[ConnOf(id)]
            /\ \A i \in 1..Len(originOut[id]) : originOut[id][i] = LocalByte(id, i)

Quiescent ==
    /\ sendqOpen /\ readerAlive /\ ~srvPanicked
    /\ cfg.raw = << >>
    /\ sendq = << >> /\ c2s = << >> /\ s2c = << >>
    /\ readerBlocked = NoBlock /\ srvWrite = NoWrite
    /\ \A c \in Conns :
          /\ pc[c] \in {"idle", "relay", "returned", "failed", "dropped"}
          /\ pc[c] = "relay" => l2t[c] = "run" /\ t2l[c] = "run"
          /\ l2t[c] # "blocked"
          /\ t2l[c] = "run" => inbox[c] = << >> /\ sid[c] \in streams

\* C5: at every quiescent moment the stream IDs in the client stream table are
\* the stream IDs in the relay session's stream map.
C5_TablesAgree ==
    Quiescent => streams = active_streams

\* C6: once a side has handled CLOSE or ERROR for a stream, it delivers no more
\* DATA of that stream: the client appends nothing to the stream's inbox, the
\* relay session writes nothing to the stream's origin write-half.
C6_NoDataAfterTerminal ==
    [][ /\ \A c \in Conns :
              sid[c] \in cTerminal => Len(inbox'[c]) <= Len(inbox[c])
        /\ \A id \in sTerminal : originOut'[id] = originOut[id] ]_vars

C6_Witness ==
    /\ HeadIs(c2s, {"Data"})
    /\ decode(Head(c2s)).msg.stream_id \in sTerminal
    /\ srvWrite = NoWrite

\* C7: a stream's entry is in the client stream table from before its CONNECT
\* is on the send queue, so whenever the reader can dispatch a reply for the
\* stream while open_stream is still running, the entry is present.
C7_EntryBeforeReply ==
    \A c \in Conns :
        ( /\ pc[c] = "sent"
          /\ ReaderReady
          /\ HeadIs(s2c, {"Data", "Close", "ErrorReply"})
          /\ decode(Head(s2c)).msg.stream_id = sid[c] )
        => sid[c] \in streams

\* C8: the send queue and every inbox hold at most 256 items; a producer that
\* finds its queue full waits and then delivers; no DATA payload for a
\* registered stream with a live receiver is discarded.
C8_BoundedNoDrop ==
    [][ /\ Len(sendq') <= SendQueueCap
        /\ \A c \in Conns : Len(inbox'[c]) <= InboxCap
        /\ ( /\ ReaderReady /\ HeadIs(s2c, {"Data"}) /\ s2c' = Tail(s2c)
             /\ decode(Head(s2c)).msg.stream_id \in streams
             /\ RxAlive(ConnOf(decode(Head(s2c)).msg.stream_id)) )
           => LET m == decode(Head(s2c)).msg
                  c == ConnOf(m.stream_id)
              IN  \/ inbox'[c] = Append(inbox[c], m.payload)
                  \/ readerBlocked' = [sid |-> m.stream_id, payload |-> m.payload]
        /\ ( /\ readerBlocked # NoBlock /\ readerBlocked' = NoBlock
             /\ RxAlive(ConnOf(readerBlocked.sid)) )
           => inbox'[ConnOf(readerBlocked.sid)] =
                 Append(inbox[ConnOf(readerBlocked.sid)], readerBlocked.payload)
        /\ \A c \in Conns :
              (l2t[c] = "blocked" /\ l2t'[c] = "run")
              => sendq' = Append(sendq, Data(sid[c], l2tPending[c])) ]_vars

C8_Witness ==
    /\ readerBlocked # NoBlock
    /\ Len(inbox[ConnOf(readerBlocked.sid)]) = InboxCap

\* C9 as stated: when relay returns it has emitted exactly one CLOSE for the
\* stream and the stream's entry is absent.
C9_CloseExactlyOnce ==
    \A c \in Conns :
        /\ closeSent[c] <= 1
        /\ pc[c] = "returned" => closeSent[c] = 1 /\ sid[c] \notin streams

\* C9: relay emits CLOSE for its stream at most once, and exactly once unless
\* the send queue has been closed by the writer task's end; the stream's entry
\* is absent when relay returns.
C9_CloseOnceIfOpen ==
    \A c \in Conns :
        /\ closeSent[c] <= 1
        /\ pc[c] \in {"idle", "alloc", "sent", "failed", "relay"} => closeSent[c] = 0
        /\ pc[c] \in {"cleanup", "returned"} => closeSent[c] = 1 \/ ~sendqOpen
        /\ pc[c] = "returned" => ~SenderLive(c)

C9_Witness ==
    /\ pc[1] = "returned"
    /\ closeSent[1] = 1
    /\ 1 \in cTerminal
    /\ sendqOpen

\* C10: after relay has enqueued CLOSE for a stream, the client enqueues no
\* DATA for it and writes no inbox payload to its local endpoint.
C10_OtherCancelled ==
    [][ \A c \in Conns :
            closeSent[c] >= 1 =>
                /\ localOut'[c] = localOut[c]
                /\ ~( /\ Len(sendq') = Len(sendq) + 1
                      /\ Last(sendq').type = "Data"
                      /\ Last(sendq').stream_id = sid[c] ) ]_vars

\* C11: once the reader has dispatched CLOSE or ERROR for a stream, the inbox
\* sender is gone and the relay task of the stream ends: when nothing more can
\* happen without new input, relay has returned.
C11_RelayEnds ==
    \A c \in Conns :
        (Quiescent /\ sid[c] \in cTerminal) => pc[c] \in {"returned", "failed"}

\* C12: half-close drains before it removes: when the relay session takes the
\* client's CLOSE for a stream and removes it from its stream map, the origin
\* reader task of the stream has already forwarded every octet the origin had
\* pending for it.
C12_DrainBeforeRemove ==
    [][\A id \in Ids :
          (/\ SrvGot("Close") /\ SrvMsg.msg.stream_id = id
           /\ c2s' = Tail(c2s)
           /\ id \in active_streams /\ id \notin active_streams')
          => originRead[id] = cfg.originMax[id]]_vars

\* Both ends have sent their terminal frame for the stream of connection c and
\* every frame in flight has been handled.
ClosedBothWays(c) ==
    /\ cfg.raw = << >> /\ sendqOpen /\ readerAlive
    /\ pc[c] = "returned" /\ closeSent[c] = 1
    /\ oreader[sid[c]] = "done" /\ sid[c] \in cTerminal
    /\ sendq = << >> /\ c2s = << >> /\ s2c = << >>
    /\ readerBlocked = NoBlock /\ srvWrite = NoWrite

\* C13: CLOSE is idempotent: a CLOSE for a stream that is absent changes no
\* table and emits no frame, on the client and on the relay session; and when
\* both ends have closed a stream, after both CLOSE frames are handled the
\* stream is absent from both tables.
C13_CloseIdempotent ==
    [][/\ (/\ SrvGot("Close") /\ c2s' = Tail(c2s)
           /\ SrvMsg.msg.stream_id \notin active_streams)
          => (active_streams' = active_streams /\ s2c' = s2c)
       /\ (/\ ReaderReady /\ HeadIs(s2c, {"Close"}) /\ s2c' = Tail(s2c)
           /\ ReaderMsg.msg.stream_id \notin streams)
          => (streams' = streams /\ sendq' = sendq /\ inbox' = inbox)
       /\ \A c \in Conns :
             ClosedBothWays(c)' =>
                (sid'[c] \notin streams' /\ sid'[c] \notin active_streams')]_vars

\* No client task can take a step unless its socket or the transport delivers
\* something new.
ClientIdle ==
    /\ sendq = << >> \/ ~sendqOpen
    /\ readerBlocked = NoBlock
    /\ \A c \in Conns :
          /\ pc[c] \in {"idle", "relay", "returned", "failed", "dropped"}
          /\ l2t[c] # "blocked"
          /\ pc[c] = "relay" => l2t[c] = "run" /\ t2l[c] = "run"
          /\ t2l[c] = "run" => inbox[c] = << >> /\ sid[c] \in streams

\* C14: a transport error or Close seen by the reader is fatal to every stream:
\* once the reader has ended and the client tasks have come to rest, the stream
\* table is empty, so every inbox is closed.
C14_FatalToStreams ==
    (~readerAlive /\ ClientIdle) => streams = {}

\* C15: a per-stream error never terminates another stream.  The dispatch of
\* CLOSE or ERROR for a stream s on the client, the handling of CLOSE for s on
\* the relay session, a failed origin write for s and the end of the origin
\* reader of s each remove at most the entry of s, and leave every other
\* stream's table entry, inbox, map entry and origin reader as they were.
C15_OnlyOwnStream ==
    [][/\ (/\ ReaderReady /\ HeadIs(s2c, {"Close", "ErrorReply"})
           /\ s2c' = Tail(s2c))
          => /\ streams' \subseteq streams
             /\ streams \ streams' \subseteq {ReaderMsg.msg.stream_id}
             /\ inbox' = inbox
             /\ active_streams' = active_streams /\ oreader' = oreader
       /\ (SrvGot("Close") /\ c2s' = Tail(c2s))
          => /\ active_streams' \subseteq active_streams
             /\ active_streams \ active_streams' \subseteq {SrvMsg.msg.stream_id}
             /\ oreader' = oreader /\ originOut' = originOut
             /\ streams' = streams /\ inbox' = inbox
       /\ (Borrowed /\ srvWrite' = NoWrite)
          => /\ active_streams' \subseteq active_streams
             /\ active_streams \ active_streams' \subseteq {srvWrite.sid}
             /\ \A id \in Ids \ {srvWrite.sid} : originOut'[id] = originOut[id]
             /\ oreader' = oreader
             /\ streams' = streams /\ inbox' = inbox
       /\ \A id \in Ids :
             (oreader[id] = "run" /\ oreader'[id] = "done")
             => /\ active_streams' \subseteq active_streams
                /\ active_streams \ active_streams' \subseteq {id}
                /\ \A other \in Ids \ {id} : oreader'[other] = oreader[other]
                /\ originOut' = originOut
                /\ streams' = streams /\ inbox' = inbox]_vars

\* The reader has dispatched CLOSE or ERROR for one stream while the other
\* stream is established on both ends.
C15_Witness ==
    \E c \in Conns, d \in Conns :
        /\ c # d /\ sid[c] \in cTerminal /\ sid[c] \notin streams
        /\ pc[d] = "relay" /\ sid[d] \in streams /\ sid[d] \in active_streams
        /\ sid[d] \notin cTerminal

\* The hosts the filter is to deny, written out from the specification: the
\* empty host, a host of more than 253 octets, and a host whose lower-cased
\* form begins with 127., 10., 192.168., 172.16. to 172.31., 169.254., 0.,
\* localhost, ::1, fc, fd or fe80.
Begins(h, p) == Len(h) >= Len(p) /\ SubSeq(h, 1, Len(p)) = p
In172Range(l) ==
    /\ Len(l) >= 7
    /\ SubSeq(l, 1, 4) = << 49, 55, 50, 46 >>
    /\ l[5] \in 48..57 /\ l[6] \in 48..57 /\ l[7] = 46
    /\ 10 * (l[5] - 48) + (l[6] - 48) \in 16..31
DeniedHost(h) ==
    LET l == [i \in 1..Len(h) |->
                 IF h[i] \in 65..90 THEN h[i] + 32 ELSE h[i]]
    IN  \/ h = << >>
        \/ Len(h) > 253
        \/ Begins(l, << 49, 50, 55, 46 >>)
        \/ Begins(l, << 49, 48, 46 >>)
        \/ Begins(l, << 49, 57, 50, 46, 49, 54, 56, 46 >>)
        \/ In172Range(l)
        \/ Begins(l, << 49, 54, 57, 46, 50, 53, 52, 46 >>)
        \/ Begins(l, << 48, 46 >>)
        \/ Begins(l, << 108, 111, 99, 97, 108, 104, 111, 115, 116 >>)
        \/ Begins(l, << 58, 58, 49 >>)
        \/ Begins(l, << 102, 99 >>)
        \/ Begins(l, << 102, 100 >>)
        \/ Begins(l, << 102, 101, 56, 48 >>)

\* C16: a CONNECT whose host the SSRF filter denies is answered with
\* ERROR{stream, 400, "Invalid host"}; no origin is dialled (no reader task is
\* spawned) and nothing is inserted into the stream map.
C16_DeniedConnect ==
    [][(/\ SrvGot("Connect") /\ c2s' = Tail(c2s)
        /\ DeniedHost(SrvMsg.msg.host))
       => /\ s2c' = Append(s2c, encode(ErrorReply(SrvMsg.msg.stream_id, 400,
                                                  MsgInvalidHost)))
          /\ active_streams' = active_streams
          /\ oreader' = oreader /\ originRead' = originRead
          /\ originOut' = originOut /\ srvWrite' = srvWrite]_vars

\* The reply to a CONNECT for a denied host is on its way to the client and
\* the stream map is empty.
C16_Witness ==
    /\ HeadIs(s2c, {"ErrorReply"})
    /\ decode(Head(s2c)).msg.code = 400
    /\ decode(Head(s2c)).msg.message = MsgInvalidHost
    /\ active_streams = {}
    /\ \A id \in Ids : oreader[id] = "none"

\* C17: is_valid_host(h) is false exactly when h is empty, or longer than 253
\* octets, or its lower-cased form begins with one of 127., 10., 192.168.,
\* 172.16. to 172.31. (all sixteen), 169.254., 0., localhost, ::1, fc, fd,
\* fe80; it is true otherwise.
C17_FilterExact ==
    cstep = "host" => (hostOk <=> ~DeniedHost(hostIn))

\* The filter has denied "LOCALHOSTx", which only its lower-cased form makes
\* a denied host.
C17_WitnessUpper ==
    /\ cstep = "host" /\ ~hostOk
    /\ hostIn = << 76, 79, 67, 65, 76, 72, 79, 83, 84, 120 >>

\* C18: a CONNECT whose stream ID is already in the relay session's stream
\* map, whatever its host, is answered with ERROR 409; no origin is dialled
\* and the map is unchanged.
C18_DuplicateConnect ==
    [][(/\ SrvGot("Connect") /\ c2s' = Tail(c2s)
        /\ SrvMsg.msg.stream_id \in active_streams)
       => /\ s2c' = Append(s2c, encode(ErrorReply(SrvMsg.msg.stream_id, 409,
                                                  MsgDuplicate)))
          /\ active_streams' = active_streams
          /\ oreader' = oreader /\ originRead' = originRead]_vars

\* C19: after a second CONNECT with the ID of an established stream, the second
\* is rejected with 409 and the first stream stays usable: handling the
\* duplicate leaves the relay session's map entry and origin reader in place,
\* and the client's dispatch of the 409 leaves the client's table entry and
\* inbox in place.
C19_FirstSurvives ==
    [][/\ (/\ SrvGot("Connect") /\ c2s' = Tail(c2s)
           /\ SrvMsg.msg.stream_id \in active_streams)
          => (active_streams' = active_streams /\ oreader' = oreader)
       /\ (/\ ReaderReady /\ HeadIs(s2c, {"ErrorReply"}) /\ s2c' = Tail(s2c)
           /\ ReaderMsg.msg.code = 409)
          => (streams' = streams /\ inbox' = inbox)]_vars

\* C20: DATA for a stream that is not in the relay session's stream map is
\* answered with ERROR 404; the payload is written to no origin and nothing is
\* inserted into the map.
C20_UnknownData ==
    [][(/\ SrvGot("Data") /\ c2s' = Tail(c2s)
        /\ SrvMsg.msg.stream_id \notin active_streams)
       => /\ s2c' = Append(s2c, encode(ErrorReply(SrvMsg.msg.stream_id, 404,
                                                  MsgNotFound)))
          /\ originOut' = originOut /\ srvWrite' = srvWrite
          /\ active_streams' = active_streams]_vars

\* C21: whenever the origin side of a stream ends, the relay session removes
\* the stream's entry and emits the matching terminal frame: when the origin
\* reader task of a stream ends, the stream is no longer in the map and CLOSE
\* (end of file) or ERROR 500 (read error) has been sent; when a write to the
\* origin fails, the stream is no longer in the map and ERROR 500 has been sent.
C21_OriginEndReleases ==
    [][/\ \A id \in Ids :
             (oreader[id] = "run" /\ oreader'[id] = "done")
             => /\ id \notin active_streams'
                /\ \/ s2c' = Append(s2c, encode(Close(id)))
                   \/ s2c' = Append(s2c, encode(ErrorReply(id, 500, MsgReadError)))
       /\ (Borrowed /\ srvWrite' = NoWrite /\ originOut'[srvWrite.sid] #
               originOut[srvWrite.sid] \o srvWrite.payload)
          => /\ srvWrite.sid \notin active_streams'
             /\ s2c' = Append(s2c, encode(ErrorReply(srvWrite.sid, 500,
                                                     MsgWriteError)))]_vars

\* C22: every PING the relay session receives is answered with exactly one
\* PONG, and handling PING or PONG, on the relay session and in the client's
\* reader, leaves the stream map, the stream table and the inboxes unchanged.
C22_PingPong ==
    [][/\ (SrvGot("Ping") /\ c2s' = Tail(c2s))
          => /\ s2c' = Append(s2c, encode(Pong))
             /\ active_streams' = active_streams /\ oreader' = oreader
             /\ streams' = streams /\ inbox' = inbox
       /\ (HeadIs(c2s, {"Pong"}) /\ c2s' = Tail(c2s))
          => /\ s2c' = s2c
             /\ active_streams' = active_streams /\ oreader' = oreader
             /\ streams' = streams /\ inbox' = inbox
       /\ (ReaderReady /\ HeadIs(s2c, {"Ping", "Pong"}) /\ s2c' = Tail(s2c))
          => /\ streams' = streams /\ inbox' = inbox
             /\ active_streams' = active_streams]_vars

\* The relay session's PONG is on its way to a client with an established
\* stream.
C22_Witness ==
    /\ s2c # << >> /\ Last(s2c) = encode(Pong)
    /\ streams # {} /\ streams = active_streams

\* C23: every PING the client's reader task receives is answered inline with
\* a PONG placed on the upstream send queue.
C23_ClientAnswersPing ==
    [][(ReaderReady /\ HeadIs(s2c, {"Ping"}) /\ s2c' = Tail(s2c))
       => sendq' = Append(sendq, Pong)]_vars

\* C24: the stream IDs open_stream returns start at 1, increase strictly in
\* allocation order and are pairwise distinct, whatever the interleaving of
\* the calls: the first call returns 1, and every call returns an ID above
\* every ID returned before it, so no two streams share a table entry.
C24_IdsIncrease ==
    [][\A c \in Conns :
          (pc[c] = "idle" /\ pc'[c] = "alloc")
          => /\ sid'[c] >= 1
             /\ (\A d \in Conns : pc[d] = "idle") => sid'[c] = 1
             /\ \A d \in Conns \ {c} : pc[d] # "idle" => sid'[c] > sid[d]]_vars

\* C25: when the stream ID counter has wrapped, open_stream skips the IDs in
\* the stream table: it never returns the ID of a live stream and its insert
\* never replaces a live stream's entry.
C25_WrapSkipsLive ==
    [][\A c \in Conns :
          /\ (pc[c] = "idle" /\ pc'[c] = "alloc") => sid'[c] \notin streams
          /\ (pc[c] = "sent" /\ pc'[c] = "relay") => sid[c] \notin streams]_vars

\* C26: the host of every CONNECT frame the client places on the upstream
\* channel, from SOCKS5 admission through open_stream, is valid UTF-8, not
\* empty, and at most 253 octets long.
C26_ConnectHostSane ==
    (cstep = "socks" /\ frame # NoFrame) =>
        /\ IsUtf8(frame.host)
        /\ frame.host # << >>
        /\ Len(frame.host) <= 253

\* C27: decode rejects every input of more than MAX_FRAME_SIZE (1 MiB) octets
\* with FrameTooLarge and returns no frame for it.
C27_OversizeRejected ==
    (cstep = "oversize" /\ oversize.len > MaxFrameSize)
        => oversize.out = [res |-> "Err", err |-> "FrameTooLarge"]

\* The fixed header that follows the command octet is incomplete.
ShortHeader(b) ==
    CASE b[1] \in {CmdConnect, CmdData, CmdErrorReply} -> Len(b) - 1 < 8
      [] b[1] = CmdClose -> Len(b) - 1 < 4
      [] OTHER -> FALSE

\* The length a complete header declares exceeds the octets that follow it.
DeclaresTooMuch(b) ==
    CASE b[1] \in {CmdConnect, CmdErrorReply} ->
            256 * b[8] + b[9] > Len(b) - 9
      [] b[1] = CmdData ->
            \/ b[6] >= 128
            \/ 16777216 * b[6] + 65536 * b[7] + 256 * b[8] + b[9] > Len(b) - 9
      [] OTHER -> FALSE

\* C28: decode classifies malformed input exactly and returns no frame for
\* it: empty input gives EmptyMessage, a first octet outside 0x01..0x06 gives
\* InvalidCommand, and a short fixed header or a declared host, payload or
\* message length beyond the remaining octets gives InsufficientData.
C28_MalformedClassified ==
    cstep = "decoded" =>
        /\ wire = << >> => decoded = [res |-> "Err", err |-> "EmptyMessage"]
        /\ (wire # << >> /\ wire[1] \notin 1..6)
               => decoded = [res |-> "Err", err |-> "InvalidCommand"]
        /\ (wire # << >> /\ wire[1] \in 1..6 /\ ShortHeader(wire))
               => decoded = [res |-> "Err", err |-> "InsufficientData"]
        /\ (wire # << >> /\ wire[1] \in 1..6 /\ ~ShortHeader(wire)
                /\ DeclaresTooMuch(wire))
               => decoded = [res |-> "Err", err |-> "InsufficientData"]
C28_Witness ==
    /\ cstep = "decoded"
    /\ wire = << CmdData, 0, 0, 0, 1, 0, 0 >>
    /\ decoded = [res |-> "Err", err |-> "InsufficientData"]

\* C29: in every frame produced by encode, the length prefix equals the
\* number of host, payload or message octets that follow it, and nothing
\* else follows.
C29_PrefixExact ==
    cstep = "roundtrip" =>
        CASE frame.type = "Connect" ->
                /\ GetU16(wire, 7) = Len(frame.host)
                /\ Len(wire) = 9 + GetU16(wire, 7)
          [] frame.type = "ErrorReply" ->
                /\ GetU16(wire, 7) = Len(frame.message)
                /\ Len(wire) = 9 + GetU16(wire, 7)
          [] frame.type = "Data" ->
                /\ GetU32(wire, 5) = Len(frame.payload)
                /\ Len(wire) = 9 + GetU32(wire, 5)
          [] OTHER -> TRUE

\* C30: a received message that fails to decode is dropped on either side:
\* the channel stays open, no frame is sent in response, and the receiving
\* side's table is unchanged.
C30_UndecodableDropped ==
    [][ /\ (c2s # << >> /\ decode(Head(c2s)).res # "Ok" /\ c2s' = Tail(c2s))
            => /\ s2c' = s2c
               /\ active_streams' = active_streams
               /\ UNCHANGED serverVars
        /\ (ReaderReady /\ decode(Head(s2c)).res # "Ok" /\ s2c' = Tail(s2c))
            => /\ sendq' = sendq /\ c2s' = c2s
               /\ streams' = streams /\ inbox' = inbox
               /\ readerAlive' /\ sendqOpen' = sendqOpen
      ]_vars
C30_Witness ==
    /\ cfg = PPeer
    /\ rawDownSent = Len(PPeer.rawDown)
    /\ s2c = << >>
    /\ readerAlive
    /\ sendqOpen
    /\ streams # {}

\* C31: a SOCKS5 connection rejected at admission receives the reply of its
\* cause and no tunnel stream is opened for it: the method reply 0xFF when
\* method 0x00 is not offered, reply code 0x07 when the command is not
\* CONNECT, reply code 0x08 when the address type is IPv6 or unknown.  The
\* causes are looked for in the order of the handshake.
C31_RejectionReplies ==
    (cstep = "socks" /\ socksIn.ver = 5) =>
        LET greeted == 0 \in socksIn.methods /\ socksIn.ver2 = 5
            last == socksOut.replies[Len(socksOut.replies)]
        IN  /\ 0 \notin socksIn.methods
                => /\ socksOut.replies = << << 5, 255 >> >>
                   /\ ~socksOut.opens /\ frame = NoFrame
            /\ (greeted /\ socksIn.cmd # 1)
                => /\ Len(socksOut.replies) = 2
                   /\ last = << 5, 7, 0, 1, 0, 0, 0, 0, 0, 0 >>
                   /\ ~socksOut.opens /\ frame = NoFrame
            /\ (greeted /\ socksIn.cmd = 1 /\ socksIn.atyp \notin {1, 3})
                => /\ Len(socksOut.replies) = 2
                   /\ last = << 5, 8, 0, 1, 0, 0, 0, 0, 0, 0 >>
                   /\ ~socksOut.opens /\ frame = NoFrame
C31_Witness ==
    /\ cstep = "socks"
    /\ socksIn.ver = 5 /\ socksIn.methods = {2}
    /\ socksOut.replies = << << 5, 255 >> >>
    /\ ~socksOut.opens

\* C32: for every SOCKS5 CONNECT request that passes admission exactly one
\* reply is sent: 0x00 if and only if open_stream succeeded, and then the
\* relay tasks are started, after the reply; 0x04 if and only if open_stream
\* failed, and then no relay task is started.
C32_OneReply ==
    \A c \in Conns :
        /\ Len(reply[c]) <= 1
        /\ pc[c] \in {"idle", "alloc", "sent"} => reply[c] = << >>
        /\ pc[c] \in {"relay", "cleanup", "returned", "dropped"}
               => reply[c] = << 0 >> /\ l2t[c] # "none" /\ t2l[c] # "none"
        /\ pc[c] = "failed"
               => reply[c] = << 4 >> /\ l2t[c] = "none" /\ t2l[c] = "none"
        /\ (l2t[c] # "none" \/ t2l[c] # "none") => reply[c] = << 0 >>

\* C33: for every sequence of get and return_buf calls by concurrent holders
\* the pool never holds more than its configured capacity of buffers, and a
\* buffer returned to a full pool is freed: it is not in the pool and its
\* holder no longer owns it.
C33_PoolBounded ==
    /\ [](Len(pool) <= capacity)
    /\ [][ \A h \in Holders :
              (held[h] # NoBuf /\ held'[h] = NoBuf /\ Len(pool) = capacity)
                  => pool' = pool ]_vars
C33_Witness ==
    /\ Len(pool) = capacity
    /\ poolOp.op = "return_buf" /\ ~poolOp.pushed
    /\ poolOp.buf.cap >= buf_size
    /\ capacity = MaxCapacity

\* C34: after any sequence of calls, get() returns a vector of length exactly
\* buf_size and capacity at least buf_size, reused or freshly allocated, and
\* every buffer in the pool has capacity at least buf_size.
C34_GetShape ==
    /\ poolOp.op = "get"
          => poolOp.buf.len = buf_size /\ poolOp.buf.cap >= buf_size
    /\ \A i \in 1..Len(pool) : pool[i].cap >= buf_size
C34_Witness ==
    /\ poolOp.op = "get" /\ poolOp.reused
    /\ poolOp.buf.len = buf_size /\ poolOp.buf.cap > buf_size
    /\ buf_size = MaxBufSize

\* C35 as the code has it: return_buf pushes v back if and only if
\* capacity(v) >= buf_size and the pool is not full; otherwise v is dropped
\* and the pool is unchanged.
C35_PutIffFitsAndRoom ==
    [][ \A h \in Holders :
           (held[h] # NoBuf /\ held'[h] = NoBuf) =>
               IF held[h].cap >= buf_size /\ Len(pool) < capacity
                 THEN pool' = Append(pool, held[h])
                 ELSE pool' = pool ]_vars
C35_Witness ==
    /\ poolOp.op = "return_buf" /\ poolOp.pushed
    /\ Len(pool) = capacity
    /\ \E h \in Holders : held[h] # NoBuf /\ held[h].cap >= buf_size

\* C35: return_buf pushes v back if and only if capacity(v) >= buf_size;
\* otherwise v is dropped and the pool is unchanged.
C35_PutIffFits ==
    [][ \A h \in Holders :
           (held[h] # NoBuf /\ held'[h] = NoBuf) =>
               IF held[h].cap >= buf_size
                 THEN pool' = Append(pool, held[h])
                 ELSE pool' = pool ]_vars

\* C36: check_and_record(n) returns true if and only if n is not tracked, and
\* then records n; once n is recorded, every later call with n returns false
\* for as long as n is younger than max_age; a call with one nonce neither
\* records nor forgets another nonce that is younger than max_age.
C36_ReplayDetected ==
    [][ lastCheck' # lastCheck =>
          LET n == lastCheck'.nonce
              young(m) == seen_nonces[m] # -1 /\ clock' - seen_nonces[m] < max_age
          IN  /\ lastCheck'.result
                    => /\ ~young(n)
                       /\ seen_nonces'[n] = lastCheck'.at
              /\ ~lastCheck'.result
                    => /\ seen_nonces[n] # -1
                       /\ seen_nonces'[n] = seen_nonces[n]
              /\ seen_nonces[n] = -1 => lastCheck'.result
              /\ young(n) => ~lastCheck'.result
              /\ \A m \in Nonces \ {n} :
                    /\ seen_nonces[m] = -1 => seen_nonces'[m] = -1
                    /\ young(m) => seen_nonces'[m] = seen_nonces[m] ]_vars
C36_Witness ==
    /\ lastCheck.nonce = 1 /\ ~lastCheck.result
    /\ seen_nonces[1] # -1 /\ seen_nonces[1] < lastCheck.at
    /\ clock - seen_nonces[1] < max_age
    /\ seen_nonces[2] # -1 /\ seen_nonces[2] > seen_nonces[1]
    /\ last_cleanup > seen_nonces[1]

\* C37: if the relay answers a stream's CONNECT with an ERROR frame, the
\* client stream ends up closed, whether the reader dispatches the ERROR
\* before or after open_stream registers the entry and without the local
\* endpoint sending anything: once the ERROR is dispatched and nothing more
\* can happen without new input, the entry is absent from the client stream
\* table and the receive end of the inbox is closed.
C37_ErrorClosesOpening ==
    \A c \in Conns :
        ( /\ Quiescent
          /\ pc[c] \in {"relay", "returned", "dropped"}
          /\ sid[c] \in cTerminal
          /\ sid[c] \notin active_streams /\ oreader[sid[c]] = "none" )
        => (sid[c] \notin streams /\ ~RxAlive(c))

\* C38: once the relay session's upstream channel has been closed
\* (websocket_close) or has failed (websocket_error), the session's stream
\* map is empty: every origin write-half has been dropped.
C38_ChannelEndClearsMap ==
    channel # "open" => active_streams = {}

\* C40: access to the relay session's stream map is mutually exclusive: while
\* handle_data holds the map during a suspended origin write, no origin
\* reader task, no frame handler and no websocket_close handler requests
\* the map, so no conflicting borrow is reached.
C40_NoConflictingBorrow ==
    [][ srvWrite # NoWrite =>
          /\ srvPanicked' = srvPanicked
          /\ channel' # "closed" \/ channel = "closed"
          /\ \A id \in Ids : oreader'[id] = "done" => oreader[id] = "done"
          /\ c2s = << >> \/ c2s' # Tail(c2s)
               \/ ~HeadIs(c2s, {"Connect", "Data", "Close"})
               \/ (HeadIs(c2s, {"Connect"}) /\ ~is_valid_host(decode(Head(c2s)).msg.host)) ]_vars

\* C39: every critical section on the client stream-table mutex is a single
\* map operation: the mutex is never held by a task that is suspended
\* waiting for room in an inbox.
C39_NoLockAcrossSend ==
    ~(readerBlocked # NoBlock /\ readerBlocked.sid \in streams
      /\ Len(inbox[owner[readerBlocked.sid]]) = InboxCap)
====
